---------------------------- MODULE Spec2Model ----------------------------
(***************************************************************************)
(* A model of the OpenAPI -> MCP bridge (ivo-toby/mcp-openapi-server).     *)
(*                                                                         *)
(* Several specifications share this module, one per subsystem:            *)
(*   SpecExec   the request executor run for one tools/call of an OpenAPI  *)
(*              tool (ApiClient.executeApiCall and the dispatcher's catch) *)
(*   SpecServer OpenAPIServer: construction, registerTool, start and the   *)
(*              tools/list and tools/call handlers                         *)
(*   SpecHttp   the streamable HTTP transport's session handling           *)
(*   SpecFilter ToolsManager.initialize over every filter setting          *)
(* and one per function or manager checked on its own (tool id codec, path *)
(* interpolation, request binding, name abbreviation, error truncation,    *)
(* $ref resolution, findTool, ResourcesManager).                           *)
(* Each specification moves its own variables and leaves the others at     *)
(* their parked values.                                                    *)
(*                                                                         *)
(* Strings that the code inspects character by character (header values,   *)
(* response bodies, error texts) are sequences of tokens.                  *)
(***************************************************************************)
EXTENDS Naturals, Sequences, FiniteSets

VARIABLES
    \* ---- request executor (one invocation at a time) ----
    pc,         \* position inside executeApiCallWithRetry / the dispatcher
    call,       \* the invocation's inputs: header parameters and auth provider
    isRetry,    \* the isRetry argument of executeApiCallWithRetry
    headers,    \* the headers of the request being prepared
    fetches,    \* log of getAuthHeaders calls of this invocation
    outbound,   \* log of outbound HTTP requests of this invocation
    hae,        \* log of handleAuthError outcomes of this invocation
    thrown,     \* the value thrown out of executeApiCall, or NoValue
    result,     \* what the tools/call handler hands back to the MCP caller
    \* ---- OpenAPIServer ----
    startPc,    \* position inside OpenAPIServer.start
    config,     \* the server configuration (spec outcome, filters, extraTools)
    tools,      \* ToolsManager.tools: sequence of [id, name] in insertion order
    loadedSpec, \* ToolsManager.loadedSpec is set
    clientTools,\* ApiClient's tool map (ids), or NotSet
    clientSpec, \* ApiClient's OpenAPI spec is set
    customTools,\* OpenAPIServer.customTools: sequence of [name, handler]
    connected,  \* server.connect(transport) has completed
    reply,      \* the outcome of the last request or registerTool call
    \* ---- streamable HTTP transport ----
    sessions,   \* ids of the sessions in the transport's session table
    closed,     \* ids of sessions that were terminated
    nextId,     \* number of session ids generated so far
    httpReply,  \* the HTTP answer to the last request
    streams,    \* attached SSE streams: [sid, conn] per open GET response
    pending,    \* GET requests accepted and not yet attached: [sid, conn]
    nextConn,   \* number of GET connections accepted so far
    dispatched, \* the message the last request handed to the MCP server
                \* (onmessage), or NoValue when it handed none
    \* ---- functions and managers checked on their own ----
    input,      \* the arguments of the call under check
    output,     \* what the call returned or threw, or NoValue before it
    resources   \* ResourcesManager.resources: sequence of stored definitions

execVars == <<pc, call, isRetry, headers, fetches, outbound, hae, thrown, result>>
srvVars  == <<startPc, config, tools, loadedSpec, clientTools, clientSpec,
              customTools, connected, reply>>
httpVars == <<sessions, closed, nextId, httpReply, streams, pending, nextConn,
              dispatched>>
libVars  == <<input, output, resources>>
vars     == <<execVars, srvVars, httpVars, libVars>>

NoValue == [kind |-> "none"]

-----------------------------------------------------------------------------
(* Bounds of the model *)

MaxHeaderParams == 2    \* header parameters supplied by one invocation
MaxBodyLen      == 2    \* length of an upstream response body

-----------------------------------------------------------------------------
(* Small helpers *)

Range(s) == {s[i] : i \in 1..Len(s)}

SeqsUpTo(S, n) == UNION {[1..k -> S] : k \in 0..n}

\* String.prototype.toLowerCase over the header names, tool ids, tool names
\* and filter words of the model
Lower(s) ==
    CASE s = "Host" -> "host"
      [] s = "HOST" -> "host"
      [] s = "Content-Length" -> "content-length"
      [] s = "Transfer-Encoding" -> "transfer-encoding"
      [] s = "Connection" -> "connection"
      [] s = "UPGRADE" -> "upgrade"
      [] s = "TE" -> "te"
      [] s = "Trailer" -> "trailer"
      [] s = "Proxy-Connection" -> "proxy-connection"
      [] s = "Keep-Alive" -> "keep-alive"
      [] s = "Authorization" -> "authorization"
      [] s = "AUTHORIZATION" -> "authorization"
      [] s = "X-Api-Key" -> "x-api-key"
      [] s = "X-API-KEY" -> "x-api-key"
      [] s = "X-Trace" -> "x-trace"
      [] s = "GET::users" -> "get::users"
      [] s = "GET::USERS" -> "get::users"
      [] s = "POST::users" -> "post::users"
      [] s = "POST::USERS" -> "post::users"
      [] s = "GET::pets" -> "get::pets"
      [] s = "Get-Users" -> "get-users"
      [] s = "LIST-API-ENDPOINTS" -> "list-api-endpoints"
      [] s = "GET-API-ENDPOINT-SCHEMA" -> "get-api-endpoint-schema"
      [] s = "INVOKE-API-ENDPOINT" -> "invoke-api-endpoint"
      [] s = "GET" -> "get"
      [] s = "POST" -> "post"
      [] s = "HEAD" -> "head"
      [] s = "Get" -> "get"
      [] s = "User" -> "user"
      [] s = "Management" -> "management"
      [] s = "Controller" -> "controller"
      [] s = "Supercalifragilisticexpialidocious" -> "supercalifragilisticexpialidocious"
      [] s = "OPTIONS" -> "options"
      [] s = "PATCH" -> "patch"
      [] s = "Users" -> "users"
      [] s = "Pets" -> "pets"
      [] s = "Admin" -> "admin"
      [] s = "Echo" -> "echo"
      [] s = "PING" -> "ping"
      [] s = "PUT" -> "put"
      [] s = "Pong" -> "pong"
      [] s = "DELETE" -> "delete"
      [] s = "DELETE::users__---id" -> "delete::users__---id"
      [] s = "Delete-User" -> "delete-user"
      [] OTHER -> s


-----------------------------------------------------------------------------
(***************************************************************************)
(* REQUEST EXECUTOR                                                        *)
(* ApiClient.executeApiCall(toolId, params) for an OpenAPI tool whose      *)
(* supplied arguments are header-location parameters, called from the      *)
(* tools/call handler.  api-client.ts and auth-provider.ts are described   *)
(* by spec section 4.4, the AuthProvider guide and the security report.    *)
(***************************************************************************)

\* Names a caller may give to a header-location parameter
CallerHeaderNames ==
    {"Host", "Content-Length", "Transfer-Encoding", "Connection", "UPGRADE",
     "TE", "Trailer", "Proxy-Connection", "Keep-Alive",
     "authorization", "X-API-KEY", "X-Trace"}

\* Header values: plain, with a carriage return, with a line feed
HeaderValues == {<<"a">>, <<"a", "CR", "b">>, <<"LF">>}

\* Header names an auth provider contributes
AuthNameSets == {{}, {"Authorization"}, {"Authorization", "X-Api-Key"}}

\* custom = FALSE is the StaticAuthProvider built from config.headers
Providers == [custom : BOOLEAN, names : AuthNameSets]


SYSTEM_CONTROLLED_HEADERS ==
    {"host", "content-length", "transfer-encoding", "connection", "upgrade",
     "te", "trailer", "proxy-connection", "keep-alive"}

\* One header argument.  A single argument that is both system-named and
\* CR/LF-valued is left out: the sources do not fix which of its two checks
\* runs first.  Calls that mix the two defects in different arguments are in.
HeaderParam ==
    {p \in [name : CallerHeaderNames, value : HeaderValues] :
        ~(Lower(p.name) \in SYSTEM_CONTROLLED_HEADERS
            /\ \E k \in 1..Len(p.value) : p.value[k] \in {"CR", "LF"})}

\* The header arguments in the order of the params object: keys are distinct
HeaderParamLists ==
    {ps \in SeqsUpTo(HeaderParam, MaxHeaderParams) :
        \A i, j \in 1..Len(ps) : i # j => ps[i].name # ps[j].name}

Calls == [headerParams : HeaderParamLists, provider : Providers]

BodyChars == {"x", "y"}
Bodies    == UNION {[1..k -> BodyChars] : k \in 1..MaxBodyLen}

\* What the upstream does with one request: a response, or no response at all
\* Status codes are kept as the text that appears in the error message
Statuses  == {"200", "401", "403", "500"}
Responses == [status : Statuses, body : Bodies]
                \cup {[status |-> "network", body |-> <<>>]}

\* A value thrown in JavaScript: isError is "instanceof Error"
Thrown(isErr, msg) == [kind |-> "thrown", isError |-> isErr, msg |-> msg]

HasCRLF_OnlyCR(v) == \E i \in 1..Len(v) : v[i] = "CR"
\* headerValue.includes("\r") || headerValue.includes("\n")
HasCRLF(v) == \E i \in 1..Len(v) : v[i] = "CR" \/ v[i] = "LF"

IsSystemControlled_CaseSensitive(name) == name \in SYSTEM_CONTROLLED_HEADERS
\* SYSTEM_CONTROLLED_HEADERS.has(key.toLowerCase())
IsSystemControlled(name) == Lower(name) \in SYSTEM_CONTROLLED_HEADERS

HeaderInjectionError(key) ==
    Thrown(TRUE, <<"Header value for ", key, " contains invalid characters (CR/LF)">>)
SystemHeaderError(key) ==
    Thrown(TRUE, <<"Cannot set system-controlled header ", key>>)
AuthConflictError(key) ==
    Thrown(TRUE, <<"Cannot override authentication header ", key>>)

\* Validation of one header parameter while it is bound (spec 4.4, Header safety)
ValidateHeader(p) ==
    IF HasCRLF(p.value) THEN HeaderInjectionError(p.name)
    ELSE IF IsSystemControlled(p.name) THEN SystemHeaderError(p.name)
    ELSE NoValue

\* Binding walks the parameters in order and throws at the first bad one
BindHeaders(ps) ==
    LET bad == {i \in 1..Len(ps) : ValidateHeader(ps[i]) # NoValue}
    IN  IF bad = {} THEN NoValue
        ELSE ValidateHeader(ps[CHOOSE i \in bad : \A j \in bad : i <= j])

AuthHeaderConflict_CaseSensitive(ps, authNames) ==
    LET bad == {i \in 1..Len(ps) : ps[i].name \in authNames}
    IN  IF bad = {} THEN NoValue
        ELSE AuthConflictError(ps[CHOOSE i \in bad : \A j \in bad : i <= j].name)
\* The auth header conflict detection of the security report
AuthHeaderConflict(ps, authNames) ==
    LET authHeadersLower == {Lower(k) : k \in authNames}
        bad == {i \in 1..Len(ps) : Lower(ps[i].name) \in authHeadersLower}
    IN  IF authNames # {} /\ bad # {}
        THEN AuthConflictError(ps[CHOOSE i \in bad : \A j \in bad : i <= j].name)
        ELSE NoValue

\* Error sanitisation (security report, commit 7)
ERROR_DATA_LIMIT == 1000
REDACTED  == "[Authentication/Authorization error - details redacted for security]"
TRUNCATED == "... [truncated]"

\* statusCode === 401 || statusCode === 403
IsAuthStatus(status) == status = "401" \/ status = "403"

SanitizeErrorData_NoRedaction(status, body) ==
    IF Len(body) > ERROR_DATA_LIMIT
    THEN SubSeq(body, 1, ERROR_DATA_LIMIT) \o <<TRUNCATED>>
    ELSE body
SanitizeErrorData_CutsAtLimit(status, body) ==
    IF IsAuthStatus(status) THEN <<REDACTED>>
    ELSE IF Len(body) >= ERROR_DATA_LIMIT
         THEN SubSeq(body, 1, ERROR_DATA_LIMIT - 1) \o <<TRUNCATED>>
         ELSE body
SanitizeErrorData(status, body) ==
    IF IsAuthStatus(status) THEN <<REDACTED>>
    ELSE IF Len(body) > ERROR_DATA_LIMIT
         THEN SubSeq(body, 1, ERROR_DATA_LIMIT) \o <<TRUNCATED>>
         ELSE body

\* The Error thrown for a failed upstream request:
\* "API request failed: <axios message> (<status>: <sanitised data>)"
ApiError(r) ==
    IF r.status = "network"
    THEN Thrown(TRUE, <<"API request failed: ", "Network Error">>)
    ELSE Thrown(TRUE, <<"API request failed: ", "Request failed with status code ",
                        r.status, " (", r.status, ": ">>
                      \o SanitizeErrorData(r.status, r.body) \o <<")">>)

\* What a provider throws is the provider's own value, an Error or not
ProviderErrors == {Thrown(TRUE, <<"Token expired">>), Thrown(FALSE, <<"refresh failed">>)}

\* The retry runs executeApiCallWithRetry(toolId, params, true) from its start
RetryEntry_ReuseHeaders == "send"
RetryEntry == "bind"

MayRetry_Always(retrying, status) == IsAuthStatus(status)
\* !isRetry && (status is 401 or 403)
MayRetry(retrying, status) == ~retrying /\ IsAuthStatus(status)

ShouldRetry_Ignored(decision) == TRUE
\* if (shouldRetry) retry
ShouldRetry(decision) == decision = "true"

\* handleAuthError: the static provider never retries, a custom one decides
AuthDecisions(provider) ==
    IF provider.custom THEN {"true", "false", "throw"} ELSE {"false"}

ToolResult(isErr, text) ==
    [kind |-> "result", isError |-> isErr, content |-> <<[type |-> "text", text |-> text]>>]
RpcError(msg) == [kind |-> "rpcError", message |-> msg]

\* catch (error) of the tools/call handler: an Error becomes an isError result,
\* anything else is thrown on and becomes a JSON-RPC error
CallToolCatch(t) ==
    IF t.isError THEN ToolResult(TRUE, <<"Error: ">> \o t.msg) ELSE RpcError(t.msg)

ExecIdle ==
    /\ pc = "idle"
    /\ call = [headerParams |-> <<>>, provider |-> [custom |-> FALSE, names |-> {}]]
    /\ isRetry = FALSE
    /\ headers = [params |-> <<>>, auth |-> 0]
    /\ fetches = <<>>
    /\ outbound = <<>>
    /\ hae = <<>>
    /\ thrown = NoValue
    /\ result = NoValue

\* tools/call reaches executeApiCall(toolId, params)
BeginCall ==
    /\ UNCHANGED <<srvVars, httpVars, libVars>>
    /\ pc = "idle"
    /\ \E c \in Calls : call' = c
    /\ pc' = "bind"
    /\ UNCHANGED <<isRetry, headers, fetches, outbound, hae, thrown, result>>

\* Parameter binding with header validation; synchronous
Bind ==
    /\ UNCHANGED <<srvVars, httpVars, libVars>>
    /\ pc = "bind"
    /\ LET v == BindHeaders(call.headerParams)
       IN  IF v # NoValue
           THEN /\ thrown' = v
                /\ pc' = "handler"
                /\ UNCHANGED headers
           ELSE /\ headers' = [params |-> call.headerParams, auth |-> 0]
                /\ pc' = "auth"
                /\ UNCHANGED thrown
    /\ UNCHANGED <<call, isRetry, fetches, outbound, hae, result>>

Completed == Len(SelectSeq(outbound, LAMBDA o : o.status # "pending"))

\* await authProvider.getAuthHeaders() returns, then the conflict check
GetAuthHeaders ==
    /\ UNCHANGED <<srvVars, httpVars, libVars>>
    /\ pc = "auth"
    /\ LET version == Len(fetches) + 1
           v == AuthHeaderConflict(headers.params, call.provider.names)
       IN  /\ fetches' = Append(fetches, [version |-> version, ok |-> TRUE,
                                          sent |-> Len(outbound), completed |-> Completed])
           /\ IF v # NoValue
              THEN /\ thrown' = v
                   /\ pc' = "handler"
                   /\ UNCHANGED headers
              ELSE /\ headers' = [headers EXCEPT !.auth = version]
                   /\ pc' = "send"
                   /\ UNCHANGED thrown
    /\ UNCHANGED <<call, isRetry, outbound, hae, result>>

\* await authProvider.getAuthHeaders() throws (token expired, ...)
GetAuthHeadersThrows ==
    /\ UNCHANGED <<srvVars, httpVars, libVars>>
    /\ pc = "auth"
    /\ call.provider.custom
    /\ fetches' = Append(fetches, [version |-> Len(fetches) + 1, ok |-> FALSE,
                                   sent |-> Len(outbound), completed |-> Completed])
    /\ \E e \in ProviderErrors : thrown' = e
    /\ pc' = "handler"
    /\ UNCHANGED <<call, isRetry, headers, outbound, hae, result>>

\* this.axiosInstance(config): the request leaves
Send ==
    /\ UNCHANGED <<srvVars, httpVars, libVars>>
    /\ pc = "send"
    /\ outbound' = Append(outbound, [auth |-> headers.auth, params |-> headers.params,
                                     status |-> "pending", body |-> <<>>])
    /\ pc' = "wait"
    /\ UNCHANGED <<call, isRetry, headers, fetches, hae, thrown, result>>

\* The upstream answers (or the network fails) and the await resumes
Receive ==
    /\ UNCHANGED <<srvVars, httpVars, libVars>>
    /\ pc = "wait"
    /\ \E r \in Responses :
        /\ outbound' = [outbound EXCEPT ![Len(outbound)].status = r.status,
                                        ![Len(outbound)].body = r.body]
        /\ IF r.status = "200"
           THEN /\ pc' = "handler"
                /\ UNCHANGED thrown
           ELSE IF MayRetry(isRetry, r.status)
           THEN /\ pc' = "authError"
                /\ UNCHANGED thrown
           ELSE /\ thrown' = ApiError(r)
                /\ pc' = "handler"
    /\ UNCHANGED <<call, isRetry, headers, fetches, hae, result>>

LastResponse == [status |-> outbound[Len(outbound)].status,
                 body   |-> outbound[Len(outbound)].body]

\* await authProvider.handleAuthError(error) settles
HandleAuthError ==
    /\ UNCHANGED <<srvVars, httpVars, libVars>>
    /\ pc = "authError"
    /\ \E d \in AuthDecisions(call.provider) :
        /\ hae' = Append(hae, d)
        /\ IF d = "throw"
           THEN /\ \E e \in ProviderErrors : thrown' = e
                /\ pc' = "handler"
                /\ UNCHANGED isRetry
           ELSE IF ShouldRetry(d)
           THEN /\ isRetry' = TRUE
                /\ pc' = RetryEntry
                /\ UNCHANGED thrown
           ELSE /\ thrown' = ApiError(LastResponse)
                /\ pc' = "handler"
                /\ UNCHANGED isRetry
    /\ UNCHANGED <<call, headers, fetches, outbound, result>>

\* The tools/call handler returns the result or catches what was thrown
Complete ==
    /\ UNCHANGED <<srvVars, httpVars, libVars>>
    /\ pc = "handler"
    /\ result' = IF thrown = NoValue
                 THEN ToolResult(FALSE, LastResponse.body)
                 ELSE CallToolCatch(thrown)
    /\ pc' = "done"
    /\ UNCHANGED <<call, isRetry, headers, fetches, outbound, hae, thrown>>

\* The next tools/call starts from a clean slate
NextCall ==
    /\ UNCHANGED <<srvVars, httpVars, libVars>>
    /\ pc = "done"
    /\ pc' = "idle"
    /\ call' = [headerParams |-> <<>>, provider |-> [custom |-> FALSE, names |-> {}]]
    /\ isRetry' = FALSE
    /\ headers' = [params |-> <<>>, auth |-> 0]
    /\ fetches' = <<>>
    /\ outbound' = <<>>
    /\ hae' = <<>>
    /\ thrown' = NoValue
    /\ result' = NoValue

NextExec ==
    \/ BeginCall
    \/ Bind
    \/ GetAuthHeaders
    \/ GetAuthHeadersThrows
    \/ Send
    \/ Receive
    \/ HandleAuthError
    \/ Complete
    \/ NextCall

-----------------------------------------------------------------------------
(* Parked values of the subsystems a specification does not move *)

SrvParked ==
    /\ startPc = "off"
    /\ config = [mode |-> "all"]
    /\ tools = <<>>
    /\ loadedSpec = FALSE
    /\ clientTools = [set |-> FALSE, ids |-> {}]
    /\ clientSpec = FALSE
    /\ customTools = <<>>
    /\ connected = FALSE
    /\ reply = NoValue

HttpParked ==
    /\ sessions = {}
    /\ closed = {}
    /\ nextId = 0
    /\ httpReply = NoValue
    /\ streams = {}
    /\ pending = {}
    /\ nextConn = 0
    /\ dispatched = NoValue

LibParked ==
    /\ input = NoValue
    /\ output = NoValue
    /\ resources = <<>>

InitExec == ExecIdle /\ SrvParked /\ HttpParked /\ LibParked

SpecExec == InitExec /\ [][NextExec]_vars

-----------------------------------------------------------------------------
(* Claims about the request executor, checked under SpecExec *)

Done   == pc = "done"
Failed == result.kind = "rpcError" \/ (result.kind = "result" /\ result.isError)
IsErrorResult == result.kind = "result" /\ result.isError /\ Len(result.content) = 1
ThrownIs(first) == thrown.kind = "thrown" /\ thrown.msg[1] = first

AllAnswered(status) == \A i \in 1..Len(outbound) : outbound[i].status = status
AllDecided(d) == Len(hae) >= 1 /\ \A i \in 1..Len(hae) : hae[i] = d
AllFetchesOk  == \A i \in 1..Len(fetches) : fetches[i].ok

FirstWasAuthRetry ==
    /\ Len(outbound) >= 1 /\ outbound[1].status \in {"401", "403"}
    /\ Len(hae) >= 1 /\ hae[1] = "true"

\* C2: a second outbound request is issued only if the first response was 401 or
\* 403 and handleAuthError returned true; an invocation whose first attempt ended
\* any other way (success, other status, network failure, handleAuthError
\* returning false or throwing) issued exactly one outbound request.
C2_SecondOnlyAfterAuthRetry ==
    /\ Len(outbound) >= 2 => FirstWasAuthRetry
    /\ (Done /\ Len(outbound) >= 1 /\ ~FirstWasAuthRetry) => Len(outbound) = 1

C2_Witness ==
    /\ Done /\ Len(outbound) = 1 /\ outbound[1].status = "401" /\ hae = <<"false">>
    /\ IsErrorResult

\* C3: every outbound attempt uses headers from its own getAuthHeaders call, made
\* after every earlier attempt of the invocation had completed; the retry never
\* reuses the headers fetched for the first attempt.
C3_FreshHeadersPerAttempt ==
    \A i \in 1..Len(outbound) :
        /\ outbound[i].auth \in 1..Len(fetches)
        /\ fetches[outbound[i].auth].ok
        /\ fetches[outbound[i].auth].sent = i - 1
        /\ fetches[outbound[i].auth].completed = i - 1
        /\ \A j \in 1..(i - 1) : outbound[j].auth # outbound[i].auth

C3_Witness == Len(outbound) = 2 /\ outbound[2].auth = 2 /\ outbound[1].auth = 1

CallHasCRLF ==
    \E i \in 1..Len(call.headerParams) :
        \E k \in 1..Len(call.headerParams[i].value) :
            call.headerParams[i].value[k] \in {"CR", "LF"}

ClaimedSystemHeaders ==
    {"host", "content-length", "transfer-encoding", "connection", "upgrade",
     "te", "trailer", "proxy-connection", "keep-alive"}

CallHasSystemHeader ==
    \E i \in 1..Len(call.headerParams) :
        Lower(call.headerParams[i].name) \in ClaimedSystemHeaders

InjectionMsg == "Header value for "
SystemMsg    == "Cannot set system-controlled header "
ConflictMsg  == "Cannot override authentication header "

CallOverridesAuth ==
    \E i \in 1..Len(call.headerParams) : \E n \in call.provider.names :
        Lower(call.headerParams[i].name) = Lower(n)

\* C6: an invocation with a header parameter whose name equals, ignoring case, a
\* header contributed by the auth provider is rejected and never issues an
\* outbound request.
C6_AuthHeaderConflictRejected ==
    /\ CallOverridesAuth => outbound = <<>>
    /\ (Done /\ CallOverridesAuth) => Failed

C6_Witness ==
    /\ Done /\ CallOverridesAuth /\ IsErrorResult /\ ThrownIs(ConflictMsg)
    /\ outbound = <<>> /\ Len(fetches) = 1

ResultText == IF result.kind = "result" THEN result.content[1].text ELSE result.message

Leaks(text, body) == \E i \in 1..Len(text) : \E j \in 1..Len(body) : text[i] = body[j]

\* C7: when the response that failed the invocation had status 401 or 403, the
\* text surfaced to the caller is the same for every body that response could
\* have carried, and no part of the actual body appears in it.
C7_AuthErrorBodyRedacted ==
    (Done /\ Len(outbound) >= 1 /\ LastResponse.status \in {"401", "403"}) =>
        /\ ~Leaks(ResultText, LastResponse.body)
        /\ ThrownIs("API request failed: ") =>
              \A b \in Bodies :
                  result = CallToolCatch(ApiError([status |-> LastResponse.status,
                                                   body   |-> b]))

C7_Witness ==
    /\ Done /\ Len(outbound) = 1 /\ LastResponse.status = "403"
    /\ ThrownIs("API request failed: ") /\ IsErrorResult
    /\ \E i \in 1..Len(ResultText) : ResultText[i] = REDACTED

-----------------------------------------------------------------------------
(***************************************************************************)
(* OPENAPI SERVER                                                          *)
(* OpenAPIServer (construction, registerTool, start, the tools/list and    *)
(* tools/call handlers) and ToolsManager (initialize, findTool).           *)
(***************************************************************************)

\* Paths, resource names and includeResources entries are sequences of
\* tokens: "/users/{id}" is <<"/", "users", "/", "{id}">>
LowerSeq(w) == [i \in 1..Len(w) |-> Lower(w[i])]

\* What specLoader.parseOpenAPISpec yields for the larger OpenAPI document of
\* the model, in the Map's insertion order; resourceName is the first path
\* segment (spec 4.2), a tool may have no tags
RawTools ==
    << [id |-> "GET::users",  name |-> "get-users",   httpMethod |-> "GET",
        originalPath |-> <<"/", "users">>,
        resourceName |-> <<"users">>, tags |-> {"Users"}],
       [id |-> "POST::users", name |-> "create-user", httpMethod |-> "POST",
        originalPath |-> <<"/", "users">>,
        resourceName |-> <<"users">>, tags |-> {"Users", "Admin"}],
       [id |-> "GET::pets",   name |-> "list-pets",   httpMethod |-> "GET",
        originalPath |-> <<"/", "pets">>,
        resourceName |-> <<"pets">>,  tags |-> {"Pets"}],
       [id |-> "DELETE::users__---id", name |-> "delete-user", httpMethod |-> "DELETE",
        originalPath |-> <<"/", "users", "/", "{id}">>,
        resourceName |-> <<"users">>, tags |-> {}] >>

\* The OpenAPI documents a configuration may name
SpecDocs == {"api.yaml", "users.yaml"}

\* specLoader.parseOpenAPISpec(spec) for the document the configuration names
ParseOpenAPISpec(cfg) ==
    IF cfg.openApiSpec = "users.yaml" THEN SubSeq(RawTools, 1, 2) ELSE RawTools

\* createDynamicTools: the three discovery meta-tools
DynamicTools ==
    << [id |-> "LIST-API-ENDPOINTS", name |-> "list-api-endpoints",
        httpMethod |-> "", originalPath |-> <<>>, resourceName |-> <<>>,
        tags |-> {}],
       [id |-> "GET-API-ENDPOINT-SCHEMA", name |-> "get-api-endpoint-schema",
        httpMethod |-> "", originalPath |-> <<>>, resourceName |-> <<>>,
        tags |-> {}],
       [id |-> "INVOKE-API-ENDPOINT", name |-> "invoke-api-endpoint",
        httpMethod |-> "", originalPath |-> <<>>, resourceName |-> <<>>,
        tags |-> {}] >>

\* Custom tool handlers by what they do when called
Handlers == {"returns", "throwsError", "throwsString"}

\* handler(params): a result, a thrown Error, or a thrown value that is no Error
HandlerOutcome(h) ==
    CASE h = "returns"      -> ToolResult(FALSE, <<"ok">>)
      [] h = "throwsError"  -> Thrown(TRUE,  <<"Handler failed">>)
      [] h = "throwsString" -> Thrown(FALSE, <<"boom">>)

\* Outcomes of apiClient.executeApiCall for a resolved OpenAPI tool
ExecOutcomes ==
    { ToolResult(FALSE, <<"x">>),
      Thrown(TRUE, <<"API request failed: ", "500">>) }

\* loadOpenAPISpec rejects, parseOpenAPISpec throws, or both succeed
SpecOutcomes == {"ok", "loadFails", "parseFails"}

\* config.extraTools: none, one tool, two entries under one name
ExtraToolsLists ==
    { <<>>,
      <<[name |-> "echo", handler |-> "returns"]>>,
      <<[name |-> "echo", handler |-> "returns"],
        [name |-> "echo", handler |-> "throwsError"]>> }

\* includeTools, includeOperations, includeResources and includeTags
Filters ==
    { [includeTools |-> {}, includeOperations |-> {}, includeResources |-> {},
       includeTags |-> {}],
      [includeTools |-> {"Get-Users"}, includeOperations |-> {"POST"},
       includeResources |-> {}, includeTags |-> {}],
      [includeTools |-> {"POST::USERS", "nope"}, includeOperations |-> {},
       includeResources |-> {}, includeTags |-> {}],
      [includeTools |-> {}, includeOperations |-> {"GET"},
       includeResources |-> {<<"Users">>}, includeTags |-> {}],
      [includeTools |-> {}, includeOperations |-> {}, includeResources |-> {},
       includeTags |-> {"admin"}] }

Configs ==
    { [toolsMode         |-> m,
       includeTools      |-> f.includeTools,
       includeOperations |-> f.includeOperations,
       includeResources  |-> f.includeResources,
       includeTags       |-> f.includeTags,
       openApiSpec       |-> "api.yaml",
       specOutcome       |-> o,
       extraTools        |-> x] :
         m \in {"all", "dynamic", "explicit"}, f \in Filters, o \in SpecOutcomes,
         x \in ExtraToolsLists }

\* Filter settings taken one by one, for the specification of initialize
\* alone: names in another case, an unknown name, methods, resource entries
\* as segment names and as paths, tags
IncludeToolsValues == { {}, {"Get-Users"}, {"POST::USERS", "nope"} }
IncludeOperationsValues == { {}, {"GET"}, {"post", "delete"} }
IncludeResourcesValues ==
    { {}, {<<"Users">>}, {<<"/", "users">>}, {<<"pets">>, <<"/">>} }
IncludeTagsValues == { {}, {"admin"}, {"users", "pets"} }

FilterConfigs ==
    { [toolsMode         |-> m,
       includeTools      |-> it,
       includeOperations |-> io,
       includeResources  |-> ir,
       includeTags       |-> ig,
       openApiSpec       |-> d,
       specOutcome       |-> o,
       extraTools        |-> <<>>] :
         m \in {"all", "dynamic", "explicit"}, it \in IncludeToolsValues,
         io \in IncludeOperationsValues, ir \in IncludeResourcesValues,
         ig \in IncludeTagsValues, d \in SpecDocs, o \in {"ok", "loadFails"} }

LowerAll(S) == {Lower(x) : x \in S}

\* includeToolsLower.includes(toolIdLower) || includeToolsLower.includes(toolNameLower)
MatchesIncludeTools(t, include) ==
    Lower(t.id) \in LowerAll(include) \/ Lower(t.name) \in LowerAll(include)

PassesAllModeFilters_NoPriority(t, cfg) ==
    /\ cfg.includeTools # {} => MatchesIncludeTools(t, cfg.includeTools)
    /\ cfg.includeOperations # {} =>
          (t.httpMethod # "" /\ Lower(t.httpMethod) \in LowerAll(cfg.includeOperations))
    /\ cfg.includeResources # {} =>
          (t.resourceName # <<>> /\
           LowerSeq(t.resourceName) \in {LowerSeq(r) : r \in cfg.includeResources})
    /\ cfg.includeTags # {} =>
          (\E tag \in t.tags : Lower(tag) \in LowerAll(cfg.includeTags))
\* The loop body of the "all" mode: does the tool reach filtered.set
PassesAllModeFilters(t, cfg) ==
    IF cfg.includeTools # {}
    THEN MatchesIncludeTools(t, cfg.includeTools)
    ELSE /\ cfg.includeOperations # {} =>
               (t.httpMethod # "" /\ Lower(t.httpMethod) \in LowerAll(cfg.includeOperations))
         /\ cfg.includeResources # {} =>
               (t.resourceName # <<>> /\
                LowerSeq(t.resourceName) \in {LowerSeq(r) : r \in cfg.includeResources})
         /\ cfg.includeTags # {} =>
               (\E tag \in t.tags : Lower(tag) \in LowerAll(cfg.includeTags))

InitializeTools_ExplicitFallsThrough(cfg) ==
    CASE cfg.toolsMode = "dynamic"  -> DynamicTools
      [] OTHER ->
            SelectSeq(ParseOpenAPISpec(cfg), LAMBDA t : PassesAllModeFilters(t, cfg))
InitializeTools_DynamicKeepsSpecTools(cfg) ==
    CASE cfg.toolsMode = "dynamic"  -> DynamicTools \o ParseOpenAPISpec(cfg)
      [] cfg.toolsMode = "explicit" ->
            SelectSeq(ParseOpenAPISpec(cfg),
                      LAMBDA t : MatchesIncludeTools(t, cfg.includeTools))
      [] OTHER ->
            SelectSeq(ParseOpenAPISpec(cfg), LAMBDA t : PassesAllModeFilters(t, cfg))
\* The value initialize assigns to this.tools
InitializeTools(cfg) ==
    CASE cfg.toolsMode = "dynamic"  -> DynamicTools
      [] cfg.toolsMode = "explicit" ->
            SelectSeq(ParseOpenAPISpec(cfg),
                      LAMBDA t : MatchesIncludeTools(t, cfg.includeTools))
      [] OTHER ->
            SelectSeq(ParseOpenAPISpec(cfg), LAMBDA t : PassesAllModeFilters(t, cfg))

\* Does initialize throw for this configuration
InitializeThrows(cfg) ==
    \/ cfg.specOutcome = "loadFails"
    \/ cfg.specOutcome = "parseFails" /\ cfg.toolsMode # "dynamic"

\* The first entry a loop over the Map's entries reaches among those at the
\* indexes S; 0 when there is none
FirstOf(S) == IF S = {} THEN 0 ELSE CHOOSE i \in S : \A j \in S : i <= j

\* ToolsManager.findTool: by id first, then by name, both ignoring case;
\* the index of the entry found, 0 for undefined
FindTool_CaseSensitive(ts, idOrName) ==
    LET byId   == FirstOf({i \in 1..Len(ts) : ts[i].id = idOrName})
        byName == FirstOf({i \in 1..Len(ts) : ts[i].name = idOrName})
    IN  IF byId # 0 THEN byId ELSE byName
FindTool_SinglePass(ts, idOrName) ==
    FirstOf({i \in 1..Len(ts) : \/ Lower(ts[i].id) = Lower(idOrName)
                                \/ Lower(ts[i].name) = Lower(idOrName)})
FindTool(ts, idOrName) ==
    LET byId   == FirstOf({i \in 1..Len(ts) : Lower(ts[i].id) = Lower(idOrName)})
        byName == FirstOf({i \in 1..Len(ts) : Lower(ts[i].name) = Lower(idOrName)})
    IN  IF byId # 0 THEN byId ELSE byName

\* Map.get on customTools: exact key; the index of the entry, 0 for undefined
CustomGet(cts, name) == FirstOf({i \in 1..Len(cts) : cts[i].name = name})

\* Map.set: replaces the value of an existing key in place, else appends
MapSet(cts, entry) ==
    IF CustomGet(cts, entry.name) # 0
    THEN [cts EXCEPT ![CustomGet(cts, entry.name)] = entry]
    ELSE Append(cts, entry)

\* for (const tool of config.extraTools) this.customTools.set(tool.name, tool)
RECURSIVE LoadExtraTools(_, _)
LoadExtraTools(cts, extra) ==
    IF extra = <<>> THEN cts
    ELSE LoadExtraTools(MapSet(cts, Head(extra)), Tail(extra))

Names(ts) == [i \in 1..Len(ts) |-> ts[i].name]

Resolve_CustomFirst(found, custom) ==
    IF custom # 0 THEN "custom" ELSE IF found # 0 THEN "openapi" ELSE "none"
\* Which tool tools/call executes: the OpenAPI tool findTool returned, else the
\* custom tool customTools.get returned, else none
Resolve(found, custom) ==
    IF found # 0 THEN "openapi" ELSE IF custom # 0 THEN "custom" ELSE "none"

\* A value that is not a string (a missing id or name in request.params)
NotAString == "<undefined>"

\* const idOrName = typeof id === "string" ? id : typeof name === "string" ? name : ""
IdOrName(params) ==
    IF params.id # NotAString THEN params.id
    ELSE IF params.name # NotAString THEN params.name ELSE ""

\* The order of the steps of OpenAPIServer.start
StartOrder_ConnectFirst == <<"connect", "initialize", "setTools", "setOpenApiSpec">>
StartOrder == <<"initialize", "setTools", "setOpenApiSpec", "connect">>

\* The step of start that follows the given one
StepAfter(step) ==
    LET i == CHOOSE k \in 1..Len(StartOrder) : StartOrder[k] = step
    IN  IF i = Len(StartOrder) THEN "started" ELSE StartOrder[i + 1]

ExecParked == ExecIdle

\* new OpenAPIServer(config): extraTools are put into the map, nothing is loaded
ConstructedWith(cfgs) ==
    /\ config \in cfgs
    /\ startPc = "constructed"
    /\ tools = <<>>
    /\ loadedSpec = FALSE
    /\ clientTools = [set |-> FALSE, ids |-> {}]
    /\ clientSpec = FALSE
    /\ customTools = LoadExtraTools(<<>>, config.extraTools)
    /\ connected = FALSE
    /\ reply = NoValue

Constructed == ConstructedWith(Configs)

\* The registerTool calls of the model: names new, registered, differing in
\* case only, and equal to the name of an OpenAPI tool
RegisterCalls ==
    { [name |-> "echo",      handler |-> "returns"],
      [name |-> "echo",      handler |-> "throwsString"],
      [name |-> "Echo",      handler |-> "throwsError"],
      [name |-> "get-users", handler |-> "returns"] }

\* registerTool(name, definition)
RegisterTool ==
    /\ UNCHANGED <<execVars, httpVars, libVars>>
    /\ \E rc \in RegisterCalls :
          LET name == rc.name
              h    == rc.handler
          IN
          IF CustomGet(customTools, name) # 0
          THEN /\ reply' = [kind |-> "reply", req |-> "registerTool", idOrName |-> name,
                            resolved |-> "none", failure |-> NoValue,
                            out |-> Thrown(TRUE, <<"Tool with name '", name,
                                                   "' already exists">>)]
               /\ UNCHANGED customTools
          ELSE /\ customTools' = MapSet(customTools, [name |-> name, handler |-> h])
               /\ reply' = [kind |-> "reply", req |-> "registerTool",
                            idOrName |-> name, resolved |-> "none",
                            failure |-> NoValue, out |-> NoValue]
    /\ UNCHANGED <<startPc, config, tools, loadedSpec, clientTools, clientSpec,
                   connected>>

\* start(transport) is called
StartCalled ==
    /\ UNCHANGED <<execVars, httpVars, libVars>>
    /\ startPc = "constructed"
    /\ startPc' = StartOrder[1]
    /\ UNCHANGED <<config, tools, loadedSpec, clientTools, clientSpec,
                   customTools, connected, reply>>

\* await this.toolsManager.initialize() resolves
Initialize ==
    /\ UNCHANGED <<execVars, httpVars, libVars>>
    /\ startPc = "initialize"
    /\ ~InitializeThrows(config)
    /\ loadedSpec' = TRUE
    /\ tools' = InitializeTools(config)
    /\ startPc' = StepAfter("initialize")
    /\ UNCHANGED <<config, clientTools, clientSpec, customTools, connected,
                   reply>>

\* await this.toolsManager.initialize() rejects: start rejects, nothing after
\* the await runs
InitializeFails ==
    /\ UNCHANGED <<execVars, httpVars, libVars>>
    /\ startPc = "initialize"
    /\ InitializeThrows(config)
    /\ loadedSpec' = (config.specOutcome = "parseFails")
    /\ startPc' = "failed"
    /\ UNCHANGED <<config, tools, clientTools, clientSpec, customTools,
                   connected, reply>>

\* this.apiClient.setTools(toolsMap) with the entries of getToolsWithIds()
SetTools ==
    /\ UNCHANGED <<execVars, httpVars, libVars>>
    /\ startPc = "setTools"
    /\ clientTools' = [set |-> TRUE, ids |-> {tools[i].id : i \in 1..Len(tools)}]
    /\ startPc' = StepAfter("setTools")
    /\ UNCHANGED <<config, tools, loadedSpec, clientSpec, customTools,
                   connected, reply>>

\* if (spec) this.apiClient.setOpenApiSpec(spec)
SetOpenApiSpec ==
    /\ UNCHANGED <<execVars, httpVars, libVars>>
    /\ startPc = "setOpenApiSpec"
    /\ clientSpec' = IF loadedSpec THEN TRUE ELSE clientSpec
    /\ startPc' = StepAfter("setOpenApiSpec")
    /\ UNCHANGED <<config, tools, loadedSpec, clientTools, customTools,
                   connected, reply>>

\* await this.server.connect(transport): the transport starts accepting requests
Connect ==
    /\ UNCHANGED <<execVars, httpVars, libVars>>
    /\ startPc = "connect"
    /\ connected' = TRUE
    /\ startPc' = StepAfter("connect")
    /\ UNCHANGED <<config, tools, loadedSpec, clientTools, clientSpec,
                   customTools, reply>>

\* The ListToolsRequestSchema handler
ListTools ==
    /\ UNCHANGED <<execVars, httpVars, libVars>>
    /\ connected
    /\ reply' = [kind |-> "reply", req |-> "list", idOrName |-> "", resolved |-> "none",
                 failure |-> NoValue,
                 out |-> [kind |-> "tools",
                          tools |-> Names(tools) \o Names(customTools)]]
    /\ UNCHANGED <<startPc, config, tools, loadedSpec, clientTools, clientSpec,
                   customTools, connected>>

\* What a tools/call request may carry as id and as name
RequestWords ==
    {NotAString, "Get-Users", "get-users", "list-api-endpoints", "echo", "Echo",
     "nope"}

\* The CallToolRequestSchema handler
CallTool ==
    /\ UNCHANGED <<execVars, httpVars, libVars>>
    /\ connected
    /\ \E id \in {NotAString, "", "GET::USERS"}, name \in RequestWords,
          exec \in ExecOutcomes :
          LET idOrName == IdOrName([id |-> id, name |-> name])
              found    == FindTool(tools, idOrName)
              custom   == CustomGet(customTools, idOrName)
              custOut  == HandlerOutcome(customTools[custom].handler)
              Failure(o) == IF o.kind = "thrown" THEN o ELSE NoValue
              Outcome(o) == IF o.kind = "thrown" THEN CallToolCatch(o) ELSE o
              resolved == Resolve(found, custom)
          IN  reply' =
                IF idOrName = ""
                THEN [kind |-> "reply", req |-> "call", idOrName |-> idOrName,
                      resolved |-> "none", failure |-> NoValue,
                      out |-> RpcError(<<"Tool ID or name is required">>)]
                ELSE IF resolved = "openapi"
                THEN [kind |-> "reply", req |-> "call", idOrName |-> idOrName,
                      resolved |-> "openapi",
                      failure |-> Failure(exec), out |-> Outcome(exec)]
                ELSE IF resolved = "custom"
                THEN [kind |-> "reply", req |-> "call", idOrName |-> idOrName,
                      resolved |-> "custom",
                      failure |-> Failure(custOut), out |-> Outcome(custOut)]
                ELSE [kind |-> "reply", req |-> "call", idOrName |-> idOrName,
                      resolved |-> "none", failure |-> NoValue,
                      out |-> RpcError(<<"Tool not found: ", idOrName>>)]
    /\ UNCHANGED <<startPc, config, tools, loadedSpec, clientTools, clientSpec,
                   customTools, connected>>

NextServer ==
    \/ RegisterTool
    \/ StartCalled
    \/ Initialize
    \/ InitializeFails
    \/ SetTools
    \/ SetOpenApiSpec
    \/ Connect
    \/ ListTools
    \/ CallTool

InitServer == ExecParked /\ Constructed /\ HttpParked /\ LibParked

SpecServer == InitServer /\ [][NextServer]_vars

\* ToolsManager.initialize alone, over every combination of the filter
\* settings: start is called and initialize resolves or rejects
InitFilter == ExecParked /\ ConstructedWith(FilterConfigs) /\ HttpParked /\ LibParked

NextFilter ==
    \/ StartCalled
    \/ Initialize
    \/ InitializeFails

SpecFilter == InitFilter /\ [][NextFilter]_vars

-----------------------------------------------------------------------------
(* Claims about the server, checked under SpecServer *)

Served(req) == reply.kind = "reply" /\ reply.req = req

IsErrorToolResult(out) ==
    /\ out.kind = "result"
    /\ out.isError
    /\ Len(out.content) = 1
    /\ out.content[1].type = "text"

\* C8: every failure raised while executing a resolved tool (an OpenAPI tool
\* through the executor, or a custom tool through its handler), whatever value
\* is thrown, is returned as a tools/call result with isError true and one text
\* content item, never as a JSON-RPC error.
C8_ToolFailureIsErrorResult ==
    (Served("call") /\ reply.resolved \in {"openapi", "custom"}
                    /\ reply.failure # NoValue)
        => IsErrorToolResult(reply.out)

Ids(ts) == {ts[i].id : i \in 1..Len(ts)}

\* The registry as initialize builds it, handed to the executor
RegistryReady ==
    /\ ~InitializeThrows(config)
    /\ loadedSpec
    /\ tools = InitializeTools(config)
    /\ clientTools = [set |-> TRUE, ids |-> Ids(InitializeTools(config))]
    /\ clientSpec

\* C9: the transport is connected only after initialize has succeeded and the
\* tool map and the spec have been handed to the executor; every tools/list and
\* tools/call is served from the registry exactly as initialize built it for
\* the configuration, never from the registry as it is before or during
\* initialization; when initialize fails the transport is never connected.
C9_ConnectedOnlyAfterRegistryBuilt ==
    /\ connected => RegistryReady
    /\ InitializeThrows(config) => (~connected /\ ~Served("list") /\ ~Served("call"))
    /\ (Served("list") \/ Served("call")) => connected
    /\ Served("list") =>
          /\ Len(reply.out.tools) >= Len(InitializeTools(config))
          /\ SubSeq(reply.out.tools, 1, Len(InitializeTools(config)))
                 = Names(InitializeTools(config))
          /\ \A i \in (Len(InitializeTools(config)) + 1)..Len(reply.out.tools) :
                 CustomGet(customTools, reply.out.tools[i]) # 0
    /\ (Served("call") /\ FindTool(InitializeTools(config), reply.idOrName) # 0
                       /\ reply.idOrName # "")
          => reply.resolved = "openapi"

C9_Witness ==
    /\ connected
    /\ Served("list")
    /\ config.toolsMode = "all"
    /\ Len(tools) = 1
    /\ reply.out.tools = <<"create-user", "echo">>

\* Some OpenAPI tool's id or name equals the identifier ignoring case
OpenApiMatch(x) ==
    \E i \in 1..Len(tools) : Lower(tools[i].id) = Lower(x) \/ Lower(tools[i].name) = Lower(x)

\* Some custom tool's name equals the identifier ignoring case
CustomMatchAnyCase(x) ==
    \E i \in 1..Len(customTools) : Lower(customTools[i].name) = Lower(x)

\* Some custom tool's name is the identifier, letter for letter
CustomMatchExact(x) ==
    \E i \in 1..Len(customTools) : customTools[i].name = x

ToolNotFound ==
    /\ Served("call")
    /\ reply.out.kind = "rpcError"
    /\ reply.out.message[1] = "Tool not found: "

\* C13 (as stated): tools/call resolves the identifier ignoring case against
\* OpenAPI tool ids and names and against custom tool names; it reports
\* tool-not-found only if none of them equals the identifier ignoring case.
C13_Original ==
    ToolNotFound => (~OpenApiMatch(reply.idOrName) /\ ~CustomMatchAnyCase(reply.idOrName))

\* C13 (amended): tools/call resolves the identifier ignoring case against
\* OpenAPI tool ids and names, and letter for letter against custom tool names;
\* it reports tool-not-found only if no OpenAPI tool id or name equals the
\* identifier ignoring case and no custom tool name equals it exactly.
C13_Amended ==
    /\ ToolNotFound => (~OpenApiMatch(reply.idOrName) /\ ~CustomMatchExact(reply.idOrName))
    /\ (Served("call") /\ reply.resolved = "openapi") => OpenApiMatch(reply.idOrName)
    /\ (Served("call") /\ reply.resolved = "custom") => CustomMatchExact(reply.idOrName)

\* An OpenAPI tool was found under a name written in another case
C13_Witness ==
    /\ Served("call")
    /\ reply.idOrName = "Get-Users"
    /\ reply.resolved = "openapi"
    /\ \A i \in 1..Len(tools) : tools[i].id # "Get-Users" /\ tools[i].name # "Get-Users"

\* C14: when the identifier matches both an OpenAPI tool (by id or name) and a
\* registered custom tool, the OpenAPI tool is executed and the custom handler
\* is not invoked; a custom handler runs only when no OpenAPI tool matches.
C14_OpenApiToolFirst ==
    /\ (Served("call") /\ reply.idOrName # "" /\ OpenApiMatch(reply.idOrName))
          => reply.resolved = "openapi"
    /\ (Served("call") /\ reply.resolved = "custom") => ~OpenApiMatch(reply.idOrName)

\* The identifier names an OpenAPI tool and a custom tool; the OpenAPI one ran
C14_Witness ==
    /\ Served("call")
    /\ reply.idOrName = "get-users"
    /\ OpenApiMatch("get-users")
    /\ CustomMatchExact("get-users")
    /\ reply.resolved = "openapi"

\* The entry of config.extraTools that registered the name first
FirstExtra(name) ==
    config.extraTools[FirstOf({i \in 1..Len(config.extraTools) :
                                   config.extraTools[i].name = name})]

RegisterRejected ==
    /\ Served("registerTool")
    /\ reply.out.kind = "thrown"
    /\ reply.out.isError
    /\ reply.out.msg = <<"Tool with name '", reply.idOrName, "' already exists">>

\* C15: after constructing the server with extraTools and any registerTool
\* calls, a custom tool registered under a name is never overwritten: the
\* stored definition and handler are those registered first under that name,
\* and every later registration under the name fails with "Tool with name
\* '<name>' already exists".
C15_CustomToolNeverOverwritten ==
    /\ [](\A i \in 1..Len(config.extraTools) :
             \E k \in 1..Len(customTools) :
                 customTools[k] = FirstExtra(config.extraTools[i].name))
    /\ [][ /\ \A k \in 1..Len(customTools) :
                 k <= Len(customTools') /\ customTools'[k] = customTools[k]
           /\ \A rc \in RegisterCalls :
                 (RegisterTool /\ Served("registerTool")' /\ reply'.idOrName = rc.name
                     /\ CustomMatchExact(rc.name))
                    => (RegisterRejected' /\ customTools' = customTools)
         ]_vars

NoDuplicates(names) ==
    \A i, j \in 1..Len(names) : i # j => names[i] # names[j]

\* C16: after any interleaving of start() and registerTool calls, the list
\* returned by tools/list (OpenAPI tools merged with custom tools) contains no
\* two tools with the same name: a registration under a name that already
\* exists, from OpenAPI or from a previous registration, is rejected.
C16_ListedNamesDistinct ==
    /\ Served("list") => NoDuplicates(reply.out.tools)
    /\ NoDuplicates(Names(tools) \o Names(customTools))

\* initialize has resolved: the registry is the one it built
Initialized == loadedSpec /\ startPc \notin {"constructed", "initialize", "failed"}

\* The tools the spec loader synthesised from the configured document
Synthesised == {ParseOpenAPISpec(config)[i] : i \in 1..Len(ParseOpenAPISpec(config))}

\* The tools of the registry
Registry == {tools[i] : i \in 1..Len(tools)}

EqualIgnoringCase(a, b) == Lower(a) = Lower(b)

\* Some includeTools entry equals the tool's id or its name, ignoring case
NamedByIncludeTools(t) ==
    \E e \in config.includeTools :
        EqualIgnoringCase(t.id, e) \/ EqualIgnoringCase(t.name, e)

\* C17: with toolsMode explicit, the registry after initialize is exactly the
\* set of synthesised tools whose id or name equals some includeTools entry
\* ignoring case, whatever includeOperations, includeResources and includeTags
\* are; it is empty whenever includeTools is empty.
C17_ExplicitModeRegistry ==
    (Initialized /\ config.toolsMode = "explicit") =>
        /\ Registry = {t \in Synthesised : NamedByIncludeTools(t)}
        /\ Len(tools) = Cardinality(Registry)
        /\ config.includeTools = {} => tools = <<>>

\* Explicit mode keeps get-users, named in another case, although it fails
\* the method filter and the tag filter
C17_Witness ==
    /\ Initialized
    /\ config.toolsMode = "explicit"
    /\ config.includeTools = {"Get-Users"}
    /\ config.includeOperations = {"post", "delete"}
    /\ config.includeTags = {"admin"}
    /\ config.includeResources = {<<"pets">>, <<"/">>}
    /\ Names(tools) = <<"get-users">>

\* C18: with toolsMode all and a non-empty includeTools, a synthesised tool
\* is in the registry if and only if its id or its name equals some
\* includeTools entry ignoring case, independently of includeOperations,
\* includeResources and includeTags.
C18_IncludeToolsHasPriority ==
    (Initialized /\ config.toolsMode = "all" /\ config.includeTools # {}) =>
        /\ Registry = {t \in Synthesised : NamedByIncludeTools(t)}
        /\ Len(tools) = Cardinality(Registry)

\* create-user, named by its id in another case, is kept although only GET
\* operations with a pets tag are asked for; the GET tools are dropped
C18_Witness ==
    /\ Initialized
    /\ config.toolsMode = "all"
    /\ config.includeTools = {"POST::USERS", "nope"}
    /\ config.includeOperations = {"GET"}
    /\ config.includeResources = {<<"pets">>, <<"/">>}
    /\ config.includeTags = {"users", "pets"}
    /\ config.openApiSpec = "api.yaml"
    /\ Names(tools) = <<"create-user">>

\* p is a prefix of the path w, ignoring case
IsPrefixIgnoringCase(p, w) ==
    /\ Len(p) <= Len(w)
    /\ SubSeq(LowerSeq(w), 1, Len(p)) = LowerSeq(p)

\* The path without its leading slash
Tail1(w) == IF w # <<>> /\ w[1] = "/" THEN Tail(w) ELSE w

\* The entry is a prefix of the tool's originalPath, written with or without
\* the leading slash
IsPathPrefix(res, path) ==
    IsPrefixIgnoringCase(res, path) \/ IsPrefixIgnoringCase(res, Tail1(path))

\* The tool passes every non-empty filter
PassesEveryFilter(t) ==
    /\ config.includeOperations # {} =>
          (\E op \in config.includeOperations : EqualIgnoringCase(t.httpMethod, op))
    /\ config.includeResources # {} =>
          (\E res \in config.includeResources :
               IsPathPrefix(res, t.originalPath))
    /\ config.includeTags # {} =>
          (\E tag \in t.tags : \E e \in config.includeTags :
               EqualIgnoringCase(tag, e))

\* C19: with toolsMode all and includeTools empty, a synthesised tool is in
\* the registry if and only if it passes every non-empty filter at once: its
\* HTTP method is in includeOperations, some includeResources entry is a
\* prefix of its originalPath, and one of its tags is in includeTags, all
\* compared ignoring case; an empty filter accepts every tool.
C19_AllModeFilters ==
    (Initialized /\ config.toolsMode = "all" /\ config.includeTools = {}) =>
        Registry = {t \in Synthesised : PassesEveryFilter(t)}

\* C20: with toolsMode dynamic, the registry after initialize consists of
\* exactly three tools named list-api-endpoints, get-api-endpoint-schema and
\* invoke-api-endpoint, for every loaded spec and every setting of the include
\* filters; no tool synthesised from the spec is registered.
C20_DynamicModeRegistry ==
    (Initialized /\ config.toolsMode = "dynamic") =>
        /\ Len(tools) = 3
        /\ {tools[i].name : i \in 1..Len(tools)} =
               {"list-api-endpoints", "get-api-endpoint-schema",
                "invoke-api-endpoint"}
        /\ Registry \cap Synthesised = {}
        /\ \A t \in Synthesised : t.id \notin Ids(tools) /\ t.name \notin
               {tools[i].name : i \in 1..Len(tools)}

\* Dynamic mode with include filters that select get-users in the other
\* modes: the registry is the three meta-tools
C20_Witness ==
    /\ Initialized
    /\ config.toolsMode = "dynamic"
    /\ config.includeTools = {"Get-Users"}
    /\ config.includeOperations = {"GET"}
    /\ config.includeResources = {<<"Users">>}
    /\ config.openApiSpec = "users.yaml"
    /\ Names(tools) = <<"list-api-endpoints", "get-api-endpoint-schema",
                        "invoke-api-endpoint">>

-----------------------------------------------------------------------------
(***************************************************************************)
(* STREAMABLE HTTP TRANSPORT                                               *)
(* Session handling of the /mcp endpoint: POST, GET and DELETE.  The       *)
(* transport is described by spec sections 4.6, 5 and 6.2.  A request      *)
(* passes the origin check, then the content-type gate, and only then is   *)
(* its body read: the JSON-RPC method, and with it the need for a session, *)
(* is known last.  Requests run concurrently, each on its own task; the    *)
(* session table is changed under its guard, one operation at a time.      *)
(***************************************************************************)

MaxSessions == 2    \* sessions created over the life of the process
MaxConns    == 2    \* GET connections accepted over the life of the process

\* The Mcp-Session-Id header is absent
NoSession == 0

\* Values a client may send as Mcp-Session-Id: none, ids issued so far or yet
\* to be issued, and one the transport never issues
SessionHeaders == 0..(MaxSessions + 1)

Methods == {"initialize", "tools/list", "tools/call"}

ContentTypes == {"application/json", "text/plain"}

\* Origin header: absent, on the configured host list, or not on it
Origins == {"absent", "allowed", "foreign"}

HttpRequests ==
    [method : Methods, sid : SessionHeaders, contentType : ContentTypes,
     origin : Origins]

\* Origin validation: a present Origin must match the configured hosts
OriginAllowed(origin) == origin # "foreign"

\* Content-type gate of POST
ContentTypeAccepted(ct) == ct = "application/json"

SessionValid_AnyHeader(sid, table) == sid # NoSession
\* The Mcp-Session-Id header names a session of the session table
SessionValid(sid, table) == sid # NoSession /\ sid \in table

NewSessionId_Fixed(count) == 1
\* The id given to a new session: one never given before
NewSessionId(count) == count + 1

HttpAnswer(verb, req, status, newSid) ==
    [kind |-> "http", verb |-> verb, method |-> req.method, sid |-> req.sid,
     status |-> status, sessionHeader |-> newSid]

\* POST /mcp
HttpPost ==
    /\ UNCHANGED <<execVars, srvVars, libVars>>
    /\ \E req \in HttpRequests :
          IF ~OriginAllowed(req.origin)
          THEN /\ httpReply' = HttpAnswer("POST", req, "403", NoSession)
               /\ dispatched' = NoValue
               /\ UNCHANGED <<sessions, closed, nextId>>
          ELSE IF ~ContentTypeAccepted(req.contentType)
          THEN /\ httpReply' = HttpAnswer("POST", req, "415", NoSession)
               /\ dispatched' = NoValue
               /\ UNCHANGED <<sessions, closed, nextId>>
          ELSE IF req.method = "initialize"
          THEN /\ nextId < MaxSessions
               /\ nextId' = nextId + 1
               /\ sessions' = sessions \cup {NewSessionId(nextId)}
               /\ httpReply' = HttpAnswer("POST", req, "200", NewSessionId(nextId))
               /\ dispatched' = [kind |-> "message", method |-> req.method,
                                 sid |-> NewSessionId(nextId)]
               /\ UNCHANGED closed
          ELSE IF ~SessionValid(req.sid, sessions)
          THEN /\ httpReply' = HttpAnswer("POST", req, "400", NoSession)
               /\ dispatched' = NoValue
               /\ UNCHANGED <<sessions, closed, nextId>>
          ELSE /\ httpReply' = HttpAnswer("POST", req, "200", NoSession)
               /\ dispatched' = [kind |-> "message", method |-> req.method,
                                 sid |-> req.sid]
               /\ UNCHANGED <<sessions, closed, nextId>>
    /\ UNCHANGED <<streams, pending, nextConn>>

StreamsOf(sid) == {st \in streams : st.sid = sid}

\* DELETE /mcp: the session is destroyed and its SSE stream ended
HttpDelete ==
    /\ UNCHANGED <<execVars, srvVars, libVars>>
    /\ \E sid \in SessionHeaders, origin \in Origins :
          LET req == [method |-> "", sid |-> sid]
          IN  IF ~OriginAllowed(origin)
              THEN /\ httpReply' = HttpAnswer("DELETE", req, "403", NoSession)
                   /\ UNCHANGED <<sessions, closed, streams>>
              ELSE IF ~SessionValid(sid, sessions)
              THEN /\ httpReply' = HttpAnswer("DELETE", req, "400", NoSession)
                   /\ UNCHANGED <<sessions, closed, streams>>
              ELSE /\ sessions' = sessions \ {sid}
                   /\ closed' = closed \cup {sid}
                   /\ streams' = streams \ StreamsOf(sid)
                   /\ httpReply' = HttpAnswer("DELETE", req, "200", NoSession)
    /\ dispatched' = NoValue
    /\ UNCHANGED <<nextId, pending, nextConn>>

\* Accept header of a GET
Accepts == {"text/event-stream", "application/json"}

\* GET /mcp arrives: the request is checked and its task waits for the
\* session table
HttpGet ==
    /\ UNCHANGED <<execVars, srvVars, libVars>>
    /\ \E sid \in SessionHeaders, origin \in Origins, accept \in Accepts :
          LET req == [method |-> "", sid |-> sid]
          IN  IF ~OriginAllowed(origin)
              THEN /\ httpReply' = HttpAnswer("GET", req, "403", NoSession)
                   /\ UNCHANGED <<pending, nextConn>>
              ELSE IF accept # "text/event-stream"
              THEN /\ httpReply' = HttpAnswer("GET", req, "406", NoSession)
                   /\ UNCHANGED <<pending, nextConn>>
              ELSE IF ~SessionValid(sid, sessions)
              THEN /\ httpReply' = HttpAnswer("GET", req, "400", NoSession)
                   /\ UNCHANGED <<pending, nextConn>>
              ELSE /\ nextConn < MaxConns
                   /\ nextConn' = nextConn + 1
                   /\ pending' = pending \cup {[sid |-> sid, conn |-> nextConn + 1]}
                   /\ UNCHANGED httpReply
    /\ dispatched' = NoValue
    /\ UNCHANGED <<sessions, closed, nextId, streams>>

MayAttach_Always(sid, table, attached) == sid \in table
\* A stream is attached to a session that is still there and has none
MayAttach(sid, table, attached) ==
    sid \in table /\ ~\E st \in attached : st.sid = sid

\* A waiting GET reaches the session table: its response becomes the session's
\* SSE stream, or it is refused because the session is gone (400) or already
\* has a stream (409)
AttachStream ==
    /\ UNCHANGED <<execVars, srvVars, libVars>>
    /\ \E p \in pending :
          LET req == [method |-> "", sid |-> p.sid]
          IN  /\ pending' = pending \ {p}
              /\ IF MayAttach(p.sid, sessions, streams)
                 THEN /\ streams' = streams \cup {p}
                      /\ httpReply' = HttpAnswer("GET", req, "200", NoSession)
                 ELSE /\ UNCHANGED streams
                      /\ httpReply' = HttpAnswer("GET", req,
                                          IF p.sid \in sessions THEN "409" ELSE "400",
                                          NoSession)
    /\ UNCHANGED <<sessions, closed, nextId, nextConn, dispatched>>

\* The client drops its SSE connection
StreamCloses ==
    /\ UNCHANGED <<execVars, srvVars, libVars>>
    /\ \E st \in streams : streams' = streams \ {st}
    /\ UNCHANGED <<sessions, closed, nextId, httpReply, pending, nextConn,
                   dispatched>>

\* A session idle for longer than the TTL is collected
IdleExpiry ==
    /\ UNCHANGED <<execVars, srvVars, libVars>>
    /\ \E sid \in sessions :
          /\ sessions' = sessions \ {sid}
          /\ closed' = closed \cup {sid}
          /\ streams' = streams \ StreamsOf(sid)
    /\ UNCHANGED <<nextId, httpReply, pending, nextConn, dispatched>>

NextHttp ==
    \/ HttpPost
    \/ HttpDelete
    \/ HttpGet
    \/ AttachStream
    \/ StreamCloses
    \/ IdleExpiry

InitHttp == ExecParked /\ SrvParked /\ HttpParked /\ LibParked

SpecHttp == InitHttp /\ [][NextHttp]_vars

-----------------------------------------------------------------------------
(* Claims about the HTTP transport, checked under SpecHttp *)

\* The step answers a POST that carries a method other than initialize
AnswersOtherPost ==
    /\ HttpPost
    /\ httpReply'.kind = "http"
    /\ httpReply'.verb = "POST"
    /\ httpReply'.method # "initialize"

\* The session the request names is in the session table when it arrives
NamesActiveSession == httpReply'.sid # NoSession /\ httpReply'.sid \in sessions

\* C10 (as stated): a POST with a method other than initialize is dispatched
\* only if its Mcp-Session-Id names a session active when it arrives; with a
\* missing, unknown or closed session id it is answered 400 and not dispatched.
C10_Original ==
    [][ AnswersOtherPost =>
          /\ dispatched' # NoValue => NamesActiveSession
          /\ ~NamesActiveSession =>
                (httpReply'.status = "400" /\ dispatched' = NoValue) ]_vars

\* C10 (amended): a POST with a method other than initialize is dispatched only
\* if its Mcp-Session-Id names a session active when it arrives; with a
\* missing, unknown or closed session id it is never dispatched and is answered
\* 400, or 403 or 415 when the origin check or the content-type gate rejects
\* the request before its session is looked at.
C10_Amended ==
    [][ AnswersOtherPost =>
          /\ dispatched' # NoValue => NamesActiveSession
          /\ ~NamesActiveSession =>
                (httpReply'.status \in {"400", "403", "415"} /\ dispatched' = NoValue) ]_vars

\* A request naming a closed session was answered 400 and handed on nothing
C10_Witness ==
    /\ httpReply.kind = "http" /\ httpReply.verb = "POST"
    /\ httpReply.method = "tools/call"
    /\ httpReply.sid \in closed
    /\ httpReply.status = "400"
    /\ dispatched = NoValue

\* The step answers a request of the given verb with the given status
Answers(verb, status) ==
    /\ httpReply'.kind = "http"
    /\ httpReply'.verb = verb
    /\ httpReply'.status = status

\* Every id given to a session so far
Issued == sessions \cup closed

-----------------------------------------------------------------------------
(***************************************************************************)
(* ToolsManager.findTool ON ITS OWN                                        *)
(* The registry is a Map from tool id to tool: ids are distinct as keys    *)
(* (two keys may differ in case only), names are not constrained.          *)
(***************************************************************************)

MaxRegistry == 3    \* tools in the registry handed to findTool

RegistryIdValues   == {"PING", "ping", "pong"}
RegistryNameValues == {"ping", "Pong", "list"}
FindToolWords      == {"ping", "PING", "Pong", "pong", "list", "nope"}

\* Every Map of at most MaxRegistry tools, in insertion order
Registries ==
    { r \in SeqsUpTo([id : RegistryIdValues, name : RegistryNameValues],
                     MaxRegistry) :
        \A i, j \in 1..Len(r) : i # j => r[i].id # r[j].id }

FindToolInputs ==
    { [kind |-> "findTool", registry |-> r, idOrName |-> w] :
        r \in Registries, w \in FindToolWords }

\* toolsManager.findTool(idOrName) is called and returns
FindToolCall ==
    /\ UNCHANGED <<execVars, srvVars, httpVars, resources>>
    /\ input.kind = "findTool"
    /\ output = NoValue
    /\ output' = [kind |-> "found",
                  index |-> FindTool(input.registry, input.idOrName)]
    /\ UNCHANGED input

InitFindTool ==
    /\ ExecParked /\ SrvParked /\ HttpParked
    /\ resources = <<>>
    /\ input \in FindToolInputs
    /\ output = NoValue

NextFindTool == FindToolCall

SpecFindTool == InitFindTool /\ [][NextFindTool]_vars

IdMatches ==
    {i \in 1..Len(input.registry) :
        EqualIgnoringCase(input.registry[i].id, input.idOrName)}

NameMatches ==
    {i \in 1..Len(input.registry) :
        EqualIgnoringCase(input.registry[i].name, input.idOrName)}

\* C29: findTool gives tool ids priority over tool names across the whole
\* registry: when the identifier equals, ignoring case, the id of a registered
\* tool, a tool with such an id is returned even when a tool earlier in the
\* registry has a name equal to the identifier; a name match is returned only
\* when no id matches, and then it is the first such tool in registry order;
\* with no match at all nothing is returned.
C29_IdsBeforeNames ==
    output.kind = "found" =>
        /\ IdMatches # {} => output.index = FirstOf(IdMatches)
        /\ (IdMatches = {} /\ NameMatches # {}) =>
               output.index = FirstOf(NameMatches)
        /\ (IdMatches = {} /\ NameMatches = {}) => output.index = 0

\* The first tool is named ping, the second has the id PING: findTool("ping")
\* returns the second
C29_Witness ==
    /\ output.kind = "found"
    /\ Len(input.registry) = 3
    /\ input.registry[1] = [id |-> "pong", name |-> "ping"]
    /\ input.registry[2] = [id |-> "PING", name |-> "list"]
    /\ input.idOrName = "ping"
    /\ output.index = 2

-----------------------------------------------------------------------------
(***************************************************************************)
(* ResourcesManager                                                        *)
(* resources is the Map from URI to ResourceDefinition in insertion order. *)
(* An optional field that is absent holds Undefined; a contentProvider is  *)
(* named by what it does when awaited.                                     *)
(***************************************************************************)

Undefined == NotAString

Uris              == {"", "test://a", "test://b"}
ResourceNames     == {"", "res"}
TextValues        == {Undefined, "", "Static text"}
BlobValues        == {Undefined, "", "YmxvYg=="}
ContentProviders  == {Undefined, "resolvesText", "resolvesBlob", "rejects"}

ResourceDefinitions ==
    [uri : Uris, name : ResourceNames, text : TextValues, blob : BlobValues,
     contentProvider : ContentProviders]

\* !x for an optional string or function
Falsy(x) == x = Undefined \/ x = ""

\* What awaiting the provider gives
ProviderOutcome(p) ==
    CASE p = "resolvesText" -> [kind |-> "text", value |-> "From provider"]
      [] p = "resolvesBlob" -> [kind |-> "blob", value |-> "cHJvdg=="]
      [] OTHER              -> [kind |-> "rejected", value |-> "boom"]

\* this.resources.get(uri): the index of the entry, 0 for undefined
ResourceGet(rs, uri) == FirstOf({i \in 1..Len(rs) : rs[i].uri = uri})

\* this.resources.set(uri, resource): an existing key keeps its position
ResourceSet(rs, def) ==
    IF ResourceGet(rs, def.uri) # 0
    THEN [rs EXCEPT ![ResourceGet(rs, def.uri)] = def]
    ELSE Append(rs, def)

\* The content check of addResource
HasContentSource_Unchecked(def) == TRUE
HasContentSource(def) ==
    ~(Falsy(def.text) /\ Falsy(def.blob) /\ Falsy(def.contentProvider))

\* The error addResource throws for the definition, NoValue when it stores it
AddResourceError(def) ==
    CASE Falsy(def.uri)  -> Thrown(TRUE, <<"Resource URI is required">>)
      [] Falsy(def.name) ->
            Thrown(TRUE, <<"Resource \"", def.uri, "\" requires a name">>)
      [] ~HasContentSource(def) ->
            Thrown(TRUE, <<"Resource \"", def.uri,
                           "\" requires content (text, blob, or contentProvider)">>)
      [] OTHER -> NoValue

Contents(uri, field, value) ==
    [kind |-> "contents", uri |-> uri, field |-> field, value |-> value]

\* What readResource(uri) returns or throws for the stored definitions
ReadResourceOutcome(rs, uri) ==
    LET i == ResourceGet(rs, uri) IN
    IF i = 0 THEN Thrown(TRUE, <<"Resource not found: ", uri>>)
    ELSE LET def == rs[i]
             got == ProviderOutcome(def.contentProvider)
         IN  CASE ~Falsy(def.contentProvider) ->
                      IF got.kind = "rejected"
                      THEN Thrown(TRUE, <<"Failed to load content for resource \"",
                                          uri, "\": ", got.value>>)
                      ELSE Contents(def.uri, got.kind, got.value)
               [] def.text # Undefined -> Contents(def.uri, "text", def.text)
               [] def.blob # Undefined -> Contents(def.uri, "blob", def.blob)
               [] OTHER -> Thrown(TRUE, <<"Resource \"", uri, "\" has no content">>)

\* addResource(resource), also run by the constructor for config.resources
AddResource ==
    /\ UNCHANGED <<execVars, srvVars, httpVars>>
    /\ \E def \in ResourceDefinitions :
          /\ input' = [kind |-> "addResource", uri |-> def.uri]
          /\ output' = AddResourceError(def)
          /\ resources' = IF AddResourceError(def) = NoValue
                          THEN ResourceSet(resources, def)
                          ELSE resources

\* removeResource(uri)
RemoveResource ==
    /\ UNCHANGED <<execVars, srvVars, httpVars>>
    /\ \E uri \in Uris :
          /\ input' = [kind |-> "removeResource", uri |-> uri]
          /\ output' = [kind |-> "removed",
                        deleted |-> ResourceGet(resources, uri) # 0]
          /\ resources' = SelectSeq(resources, LAMBDA d : d.uri # uri)

\* readResource(uri)
ReadResource ==
    /\ UNCHANGED <<execVars, srvVars, httpVars>>
    /\ \E uri \in Uris :
          /\ input' = [kind |-> "readResource", uri |-> uri]
          /\ output' = ReadResourceOutcome(resources, uri)
    /\ UNCHANGED resources

InitResources ==
    /\ ExecParked /\ SrvParked /\ HttpParked
    /\ resources = <<>>
    /\ input = NoValue
    /\ output = NoValue

NextResources ==
    \/ AddResource
    \/ RemoveResource
    \/ ReadResource

SpecResources == InitResources /\ [][NextResources]_vars

\* The last call was readResource on a URI that is stored
ReadStored ==
    /\ input.kind = "readResource"
    /\ ResourceGet(resources, input.uri) # 0

StoredDef == resources[ResourceGet(resources, input.uri)]

NoContentError ==
    /\ output.kind = "thrown"
    /\ output.msg[Len(output.msg)] = "\" has no content"

\* C30: every resource accepted by addResource can be read: for any sequence
\* of addResource and removeResource calls, readResource on a stored URI never
\* fails with "has no content"; it returns what the contentProvider resolves
\* to when a provider is set (the only failure being the provider's own
\* rejection), otherwise the static text when text is defined, otherwise the
\* blob.
C30_StoredResourceReadable ==
    ReadStored =>
        /\ ~NoContentError
        /\ StoredDef.contentProvider \in {"resolvesText", "resolvesBlob"} =>
               output = Contents(input.uri,
                                 ProviderOutcome(StoredDef.contentProvider).kind,
                                 ProviderOutcome(StoredDef.contentProvider).value)
        /\ StoredDef.contentProvider = "rejects" =>
               (output.kind = "thrown" /\
                output.msg[1] = "Failed to load content for resource \"")
        /\ (StoredDef.contentProvider = Undefined /\ StoredDef.text # Undefined) =>
               output = Contents(input.uri, "text", StoredDef.text)
        /\ (StoredDef.contentProvider = Undefined /\ StoredDef.text = Undefined) =>
               output = Contents(input.uri, "blob", StoredDef.blob)

\* A resource stored with an empty text next to a blob, after another was
\* added and removed: it is read as the empty text
C30_Witness ==
    /\ ReadStored
    /\ Len(resources) = 1
    /\ StoredDef.uri = "test://b"
    /\ StoredDef.text = ""
    /\ StoredDef.blob = "YmxvYg=="
    /\ StoredDef.contentProvider = Undefined
    /\ output = Contents("test://b", "text", "")

-----------------------------------------------------------------------------
(***************************************************************************)
(* OpenAPIMCPServer.callTool (the single-file server)                      *)
(* The tools/call handler and callTool, which finds the tool, replaces the *)
(* {param} placeholders of its path, builds the request and sends it.      *)
(* A path is a sequence of tokens, a placeholder "{name}" being one token; *)
(* an argument value is a record naming its type.                          *)
(***************************************************************************)

\* The tools parseOpenAPISpec registers for the paths of the model: toolId is
\* METHOD-path with every special character replaced by "-", name the
\* operationId or "METHOD path"
LegacyTools ==
    << [id |-> "GET-tasks", name |-> "listTasks", method |-> "GET",
        path |-> <<"/", "tasks">>],
       [id |-> "POST-tasks--taskId--start", name |-> "startTask",
        method |-> "POST",
        path |-> <<"/", "tasks", "/", "{taskId}", "/", "start">>],
       [id |-> "PUT-users--userId--posts--postId-",
        name |-> "PUT /users/{userId}/posts/{postId}", method |-> "PUT",
        path |-> <<"/", "users", "/", "{userId}", "/", "posts", "/",
                   "{postId}">>] >>

\* The capture group of /\{([^}]+)\}/ for a token, "" when it is no placeholder
PlaceholderName(tok) ==
    CASE tok = "{taskId}" -> "taskId"
      [] tok = "{userId}" -> "userId"
      [] tok = "{postId}" -> "postId"
      [] OTHER            -> ""

ArgNames == {"taskId", "userId", "postId"}

ArgUndefined == [type |-> "undefined"]
ArgValues ==
    { ArgUndefined, [type |-> "null"],
      [type |-> "string", chars |-> <<"a", "/", "b">>] }

\* encodeURIComponent(String(value))
EncodeURIComponent(v) ==
    IF v.type = "null" THEN <<"null">>
    ELSE [i \in 1..Len(v.chars) |->
             IF v.chars[i] = "/" THEN "%2F" ELSE v.chars[i]]

LegacyRequests ==
    [by : {"id", "name"},
     word : {"GET-tasks", "POST-tasks--taskId--start",
             "PUT-users--userId--posts--postId-", "startTask", "listTasks",
             "nope"},
     args : [ArgNames -> ArgValues],
     upstream : {"ok", "fails"}]

\* The index of the tool callTool finds: by id with Map.get, else by name in
\* insertion order; 0 when there is none
LegacyFindTool(req) ==
    IF req.by = "id"
    THEN FirstOf({i \in 1..Len(LegacyTools) : LegacyTools[i].id = req.word})
    ELSE FirstOf({i \in 1..Len(LegacyTools) : LegacyTools[i].name = req.word})

\* The placeholders of the path whose argument is undefined, in path order
MissingPathParams(path, args) ==
    SelectSeq(path, LAMBDA tok : PlaceholderName(tok) # "" /\
                                 args[PlaceholderName(tok)] = ArgUndefined)

RECURSIVE Flatten(_)
Flatten(ss) == IF ss = <<>> THEN <<>> ELSE Head(ss) \o Flatten(Tail(ss))

\* processedPath.replace(pathParamRegex, ...) when no parameter is missing
ReplacePathParams(path, args) ==
    Flatten([i \in 1..Len(path) |->
                IF PlaceholderName(path[i]) # ""
                THEN EncodeURIComponent(args[PlaceholderName(path[i])])
                ELSE <<path[i]>>])

\* mutableParams after the replaced path parameters were deleted
RemainingParams(path, args) ==
    {n \in ArgNames : args[n] # ArgUndefined /\
                      \A i \in 1..Len(path) : PlaceholderName(path[i]) # n}

\* What the handler's promise settles to: callTool's errors pass through its
\* three catch blocks and the handler's catch, each of which throws again
LegacyHandlerRethrows(t) == t

LegacyThrown(msg, sent) == [kind |-> "thrown", msg |-> msg, sent |-> sent]

\* The outcome of the tools/call handler for the request
LegacyCallToolOutcome(req) ==
    LET i == LegacyFindTool(req) IN
    IF i = 0
    THEN LegacyHandlerRethrows(LegacyThrown(<<"Tool not found: ", req.word>>, <<>>))
    ELSE LET tool    == LegacyTools[i]
             missing == MissingPathParams(tool.path, req.args)
             request == [method |-> Lower(tool.method),
                         path   |-> ReplacePathParams(tool.path, req.args),
                         place  |-> IF tool.method = "GET" THEN "params"
                                                           ELSE "data",
                         names  |-> RemainingParams(tool.path, req.args)]
         IN  IF missing # <<>>
             THEN LegacyHandlerRethrows(
                      LegacyThrown(<<"Missing required path parameter: ",
                                     PlaceholderName(missing[1])>>, <<>>))
             ELSE IF req.upstream = "fails"
             THEN LegacyHandlerRethrows(
                      LegacyThrown(<<"API request failed: ",
                                     "Request failed with status code 500">>,
                                   <<request>>))
             ELSE [kind |-> "result", isError |-> FALSE, msg |-> <<"{}">>,
                   sent |-> <<request>>]

\* One tools/call request handled by the single-file server
LegacyCallTool ==
    /\ UNCHANGED <<execVars, srvVars, httpVars, resources>>
    /\ input.kind = "legacyCall"
    /\ output = NoValue
    /\ output' = LegacyCallToolOutcome(input.req)
    /\ UNCHANGED input

InitLegacy ==
    /\ ExecParked /\ SrvParked /\ HttpParked
    /\ resources = <<>>
    /\ \E req \in LegacyRequests : input = [kind |-> "legacyCall", req |-> req]
    /\ output = NoValue

NextLegacy == LegacyCallTool

SpecLegacy == InitLegacy /\ [][NextLegacy]_vars

\* The call resolved a tool and left a placeholder of its path without an
\* argument
OmitsPathParam ==
    /\ input.kind = "legacyCall"
    /\ output # NoValue
    /\ LegacyFindTool(input.req) # 0
    /\ MissingPathParams(LegacyTools[LegacyFindTool(input.req)].path,
                         input.req.args) # <<>>

\* C25: a tool invocation that omits an argument for a required path
\* parameter of the tool's path template fails with a missing-parameter error
\* surfaced as a tools/call result with isError true, and no outbound request
\* is issued for it.
C25_MissingPathParameter ==
    OmitsPathParam =>
        /\ output.kind = "result"
        /\ output.isError
        /\ output.msg[1] = "Missing required path parameter: "
        /\ output.sent = <<>>

-----------------------------------------------------------------------------
(***************************************************************************)
(* ERROR DATA TRUNCATION ON ITS OWN                                        *)
(* The error built for a failed upstream response, for response bodies     *)
(* whose length lies around ERROR_DATA_LIMIT.                              *)
(***************************************************************************)

MaxOver == 5    \* how far below and above the limit the body lengths reach

FailedStatuses == {"400", "401", "403", "404", "500"}

BodyLengths ==
    {0, 1} \cup ((ERROR_DATA_LIMIT - MaxOver)..(ERROR_DATA_LIMIT + MaxOver))

\* A body of the given length: one repeated character, or two in alternation
\* so that every position is told from its neighbours
LongBody(n, pattern) ==
    [i \in 1..n |-> IF pattern = "alternating" /\ i % 2 = 0 THEN "y" ELSE "x"]

LongBodies == {LongBody(n, p) : n \in BodyLengths, p \in {"uniform", "alternating"}}

FailedResponses == [status : FailedStatuses, body : LongBodies]

\* The executor builds the error for the failed response
BuildApiError ==
    /\ UNCHANGED <<execVars, srvVars, httpVars, resources>>
    /\ input.kind = "failedResponse"
    /\ output = NoValue
    /\ output' = ApiError(input.response)
    /\ UNCHANGED input

InitSanitize ==
    /\ ExecParked /\ SrvParked /\ HttpParked
    /\ resources = <<>>
    /\ \E r \in FailedResponses : input = [kind |-> "failedResponse", response |-> r]
    /\ output = NoValue

NextSanitize == BuildApiError

SpecSanitize == InitSanitize /\ [][NextSanitize]_vars

\* The part of the error text that stands for the response body: what lies
\* between "(<status>: " and the closing ")"
ErrorDataOf(msg) == SubSeq(msg, 7, Len(msg) - 1)

\* C26: for any failed upstream response whose status is neither 401 nor 403,
\* the response-body text included in the surfaced error is the body unchanged
\* when it is at most 1000 characters long, and otherwise exactly its first
\* 1000 characters followed by the truncation suffix.
C26_ErrorBodyTruncatedAt1000 ==
    (input.kind = "failedResponse" /\ output # NoValue
        /\ input.response.status \notin {"401", "403"}) =>
        LET body == input.response.body
            text == ErrorDataOf(output.msg)
        IN  /\ Len(body) <= 1000 => text = body
            /\ Len(body) > 1000 =>
                  /\ Len(text) = 1001
                  /\ \A i \in 1..1000 : text[i] = body[i]
                  /\ text[1001] = TRUNCATED

\* A 500 response with a body of 1001 characters: the last one is cut
C26_Witness ==
    /\ input.kind = "failedResponse"
    /\ output # NoValue
    /\ input.response.status = "500"
    /\ input.response.body = LongBody(1001, "alternating")
    /\ ErrorDataOf(output.msg) = LongBody(1000, "alternating") \o <<TRUNCATED>>

-----------------------------------------------------------------------------
(***************************************************************************)
(* TOOL ID CODEC: generateToolId and parseToolId                           *)
(* A path is a sequence of tokens: "/", ":", a segment name, or a          *)
(* placeholder "{name}".  A tool id is the method, the separator "::" and  *)
(* the encoded path tokens, where "__" stands for a slash and "---name"    *)
(* for a placeholder.                                                      *)
(***************************************************************************)

MaxPathLen == 4    \* tokens of a path after its leading slash

HttpMethods == {"GET", "POST", "DELETE"}

PathTokens == {"/", ":", "api", "{id}"}

\* A path contains "::"
HasDoubleColon(p) == \E i \in 1..(Len(p) - 1) : p[i] = ":" /\ p[i + 1] = ":"

\* Path templates: a leading slash, then non-empty segments separated by
\* single slashes
PathTemplates ==
    { <<"/">> \o w : w \in
        { w \in SeqsUpTo(PathTokens, MaxPathLen) :
            /\ w # <<>>
            /\ w[1] # "/"
            /\ w[Len(w)] # "/"
            /\ \A i \in 1..(Len(w) - 1) : ~(w[i] = "/" /\ w[i + 1] = "/") } }

\* {name} written as ---name
EncodePlaceholder(tok) ==
    CASE tok = "{id}" -> "---id"
      [] OTHER        -> tok

\* One token of the path as it stands in the tool id
EncodePathToken_DropsColon(tok) ==
    CASE tok = "/" -> <<"__">>
      [] tok = ":" -> <<>>
      [] OTHER     -> <<EncodePlaceholder(tok)>>
EncodePathToken(tok) ==
    CASE tok = "/" -> <<"__">>
      [] OTHER     -> <<EncodePlaceholder(tok)>>

\* generateToolId(method, path): the id, or the error for a path with "::"
GenerateToolId(method, path) ==
    IF HasDoubleColon(path)
    THEN Thrown(TRUE, <<"Path \"", path,
                        "\" contains double colons (::) which conflicts with the internal tool ID separator">>)
    ELSE [kind |-> "toolId",
          id |-> <<method, "::">> \o
                 Flatten([i \in 1..(Len(path) - 1) |-> EncodePathToken(path[i + 1])])]

\* parseToolId(toolId): the method before the separator, and the path with
\* "__" turned back into slashes behind a leading slash
ParseToolId(id) ==
    [method |-> id[1],
     path   |-> <<"/">> \o [i \in 1..(Len(id) - 2) |->
                               IF id[i + 2] = "__" THEN "/" ELSE id[i + 2]]]

CodecInputs == [kind : {"codec"}, method : HttpMethods, path : PathTemplates]

\* generateToolId is called and, when it returns, parseToolId on its result
GenerateAndParse ==
    /\ UNCHANGED <<execVars, srvVars, httpVars, resources>>
    /\ input.kind = "codec"
    /\ output = NoValue
    /\ LET g == GenerateToolId(input.method, input.path) IN
         output' = IF g.kind = "thrown" THEN g
                   ELSE [kind |-> "parsed", id |-> g.id,
                         method |-> ParseToolId(g.id).method,
                         path   |-> ParseToolId(g.id).path]
    /\ UNCHANGED input

InitCodec ==
    /\ ExecParked /\ SrvParked /\ HttpParked
    /\ resources = <<>>
    /\ input \in CodecInputs
    /\ output = NoValue

NextCodec == GenerateAndParse

SpecCodec == InitCodec /\ [][NextCodec]_vars

\* The codec has run on a path without "::"
Encoded == input.kind = "codec" /\ output # NoValue /\ ~HasDoubleColon(input.path)

DashForm(p) == [i \in 1..Len(p) |-> EncodePlaceholder(p[i])]

-----------------------------------------------------------------------------
(***************************************************************************)
(* PATH PARAMETER INTERPOLATION                                            *)
(* resolvedPath.replace(paramRegex, ...) for one parameter, with           *)
(*   paramRegex = \{p\} | :p(?:\/|$) | ---p(?=__|/|:|$)     (flag g)       *)
(* The path is a sequence of tokens; the parameter p of the model is "id", *)
(* so ":" followed by the name "id" is ":p", "{id}" is "{p}" and "---id"   *)
(* is "---p".  A name written directly after "---id" belongs to the same   *)
(* word, which is why the lookahead fails there.                           *)
(***************************************************************************)

MaxTemplateLen == 4    \* tokens of a resolved path after its leading slash

TemplateTokens == {"/", ":", "__", "act", "id", "{id}", "---id"}

ResolvedPaths == { <<"/">> \o w : w \in SeqsUpTo(TemplateTokens, MaxTemplateLen) }

ParamValues ==
    { [type |-> "string", chars |-> <<"5">>],
      [type |-> "string", chars |-> <<"a", "/", "b">>] }

\* The lookahead (?=__|/|:|$) at position i of the path
DashLookahead_NoColon(path, i) ==
    i > Len(path) \/ path[i] \in {"__", "/"}
DashLookahead(path, i) ==
    i > Len(path) \/ path[i] \in {"__", "/", ":"}

\* The number of tokens the regex matches at position i, 0 for no match:
\* {p}; :p before a slash that it consumes, or at the end; ---p
MatchLength(path, i) ==
    CASE path[i] = "{id}" -> 1
      [] path[i] = ":" /\ i + 1 <= Len(path) /\ path[i + 1] = "id"
                       /\ i + 2 <= Len(path) /\ path[i + 2] = "/" -> 3
      [] path[i] = ":" /\ i + 1 = Len(path) /\ path[i + 1] = "id" -> 2
      [] path[i] = "---id" /\ DashLookahead(path, i + 1) -> 1
      [] OTHER -> 0

\* The replacement for a match: the encoded value, and the slash again when
\* the match ended with one
Replacement(len, value) ==
    EncodeURIComponent(value) \o (IF len = 3 THEN <<"/">> ELSE <<>>)

\* String.prototype.replace with the global regex: matches are taken from
\* left to right, the search going on behind each match
RECURSIVE ReplaceFrom(_, _, _)
ReplaceFrom(path, i, value) ==
    IF i > Len(path) THEN <<>>
    ELSE IF MatchLength(path, i) = 0
         THEN <<path[i]>> \o ReplaceFrom(path, i + 1, value)
         ELSE Replacement(MatchLength(path, i), value)
                  \o ReplaceFrom(path, i + MatchLength(path, i), value)

InterpolateParam(path, value) == ReplaceFrom(path, 1, value)

InterpolationInputs == [kind : {"interpolate"}, path : ResolvedPaths, value : ParamValues]

\* The executor interpolates the parameter into the resolved path
Interpolate ==
    /\ UNCHANGED <<execVars, srvVars, httpVars, resources>>
    /\ input.kind = "interpolate"
    /\ output = NoValue
    /\ output' = [kind |-> "path", path |-> InterpolateParam(input.path, input.value)]
    /\ UNCHANGED input

InitInterpolate ==
    /\ ExecParked /\ SrvParked /\ HttpParked
    /\ resources = <<>>
    /\ input \in InterpolationInputs
    /\ output = NoValue

NextInterpolate == Interpolate

SpecInterpolate == InitInterpolate /\ [][NextInterpolate]_vars

Interpolated == input.kind = "interpolate" /\ output # NoValue

\* Position i holds {p}, or ---p followed by "__", "/", ":" or the end
IsBraceOrDash(path, i) ==
    \/ path[i] = "{id}"
    \/ path[i] = "---id" /\ (i = Len(path) \/ path[i + 1] \in {"__", "/", ":"})

\* Position i holds the colon of :p followed by "/" or the end
IsColonParam(path, i) ==
    /\ path[i] = ":"
    /\ i < Len(path)
    /\ path[i + 1] = "id"
    /\ (i + 1 = Len(path) \/ path[i + 2] = "/")

\* C22 as stated: interpolation replaces each occurrence of {p}, or of ---p
\* followed by "__", "/", ":" or end of string, with the URL-encoded value and
\* leaves every other character of the path unchanged, so a ":action" suffix
\* directly after the parameter is preserved in the bound URL.
C22_Original ==
    Interpolated =>
        output.path =
            Flatten([i \in 1..Len(input.path) |->
                        IF IsBraceOrDash(input.path, i)
                        THEN EncodeURIComponent(input.value)
                        ELSE <<input.path[i]>>])

\* C22 amended: interpolation replaces each occurrence of {p}, of :p followed
\* by "/" or end of string, or of ---p followed by "__", "/", ":" or end of
\* string, with the URL-encoded value and leaves every other character of the
\* path unchanged, so a ":action" suffix directly after the parameter is
\* preserved unless the action is named like the parameter and ends a segment.
C22_Amended ==
    Interpolated =>
        output.path =
            Flatten([i \in 1..Len(input.path) |->
                        IF IsBraceOrDash(input.path, i) \/ IsColonParam(input.path, i)
                        THEN EncodeURIComponent(input.value)
                        ELSE IF i > 1 /\ IsColonParam(input.path, i - 1)
                        THEN <<>>
                        ELSE <<input.path[i]>>])

\* /---id:act with id = a/b is bound to /a%2Fb:act
C22_Witness ==
    /\ Interpolated
    /\ input.path = <<"/", "---id", ":", "act">>
    /\ input.value.chars = <<"a", "/", "b">>
    /\ output.path = <<"/", "a", "%2F", "b", ":", "act">>

-----------------------------------------------------------------------------
(***************************************************************************)
(* PARAMETER BINDING OF THE API CLIENT                                     *)
(* executeApiCall(toolId, params) up to the request configuration that is  *)
(* handed to axios: the declared path parameter is interpolated into the   *)
(* URL and removed from the copy of the arguments, and what remains is the *)
(* query map of a GET-like request or the body of any other request.       *)
(***************************************************************************)

BindMethods == {"GET", "DELETE", "HEAD", "OPTIONS", "POST", "PUT", "PATCH"}

\* The methods whose remaining arguments are sent as config.params
GetLikeMethods == {"GET", "DELETE", "HEAD", "OPTIONS"}

BindArgNames == {"id", "limit", "sort", "notInSpec"}

\* GET::users and GET::users__---id after parseToolId
BindPaths == { <<"/", "users">>, <<"/", "users", "/", "---id">> }

\* The location the tool declares for an argument, "none" for an argument
\* that is not in its parameters
DeclaredIn(path, a) ==
    CASE a = "id" /\ "---id" \in Range(path) -> "path"
      [] a \in {"limit", "sort"} -> "query"
      [] OTHER -> "none"

ArgAbsent == [type |-> "absent"]

BindArgValues ==
    { ArgAbsent, ArgUndefined, [type |-> "null"],
      [type |-> "number", chars |-> <<"10">>],
      [type |-> "string", chars |-> <<"a", "/", "b">>],
      [type |-> "array", items |-> <<"name", "created_at">>] }

IsNullish(v) == v.type \in {"absent", "undefined", "null"}

\* An invocation: the path parameter of a tool that has one is supplied
BindCalls ==
    { c \in [kind : {"executeApiCall"}, method : BindMethods, path : BindPaths,
             args : [BindArgNames -> BindArgValues]] :
        DeclaredIn(c.path, "id") = "path" => c.args["id"].type \in {"number", "string"} }

\* value.join(",")
RECURSIVE JoinWithCommas(_)
JoinWithCommas(items) ==
    IF Len(items) <= 1 THEN items
    ELSE <<Head(items), ",">> \o JoinWithCommas(Tail(items))

\* One entry of the query map: arrays are joined with commas, undefined and
\* null are left out, every other value is passed on as it is
ProcessQueryParam(v) ==
    CASE v.type = "array" -> [type |-> "string", chars |-> JoinWithCommas(v.items)]
      [] IsNullish(v)     -> ArgAbsent
      [] OTHER            -> v

\* The copy of the arguments after the path parameters were interpolated
ParamsCopy_KeepsPathParams(c) == c.args
ParamsCopy(c) ==
    [a \in BindArgNames |->
        IF DeclaredIn(c.path, a) = "path" THEN ArgAbsent ELSE c.args[a]]

ResolvedUrl(c) ==
    IF DeclaredIn(c.path, "id") = "path"
    THEN InterpolateParam(c.path, c.args["id"])
    ELSE c.path

\* The configuration handed to axios
RequestConfig(c) ==
    [kind   |-> "config",
     method |-> Lower(c.method),
     url    |-> ResolvedUrl(c),
     params |-> IF c.method \in GetLikeMethods
                THEN [a \in BindArgNames |-> ProcessQueryParam(ParamsCopy(c)[a])]
                ELSE ArgUndefined,
     data   |-> IF c.method \in GetLikeMethods
                THEN ArgUndefined
                ELSE ParamsCopy(c)]

ExecuteApiCallBinds ==
    /\ UNCHANGED <<execVars, srvVars, httpVars, resources>>
    /\ input.kind = "executeApiCall"
    /\ output = NoValue
    /\ output' = RequestConfig(input)
    /\ UNCHANGED input

InitBind ==
    /\ ExecParked /\ SrvParked /\ HttpParked
    /\ resources = <<>>
    /\ input \in BindCalls
    /\ output = NoValue

NextBind == ExecuteApiCallBinds

SpecBind == InitBind /\ [][NextBind]_vars

Bound == input.kind = "executeApiCall" /\ output # NoValue

\* The entry of argument a in a map of the configuration, absent when the
\* configuration has no such map
EntryOf(map, a) == IF map = ArgUndefined THEN ArgAbsent ELSE map[a]

InQueryMap(a) == EntryOf(output.params, a) # ArgAbsent
InBody(a)     == EntryOf(output.data, a) # ArgAbsent
InUrlPath(a)  ==
    /\ a = "id"
    /\ "---id" \in Range(input.path)
    /\ output.url = <<"/", "users", "/">> \o EncodeURIComponent(input.args["id"])

\* C24: for every tool invocation and every HTTP method, each supplied
\* argument that the tool declares with location query is placed in the
\* outbound request's query map (arrays joined with commas) and not in the
\* request body.
C24_QueryArgsInQueryMap ==
    Bound =>
        \A a \in BindArgNames :
            DeclaredIn(input.path, a) = "query" /\ ~IsNullish(input.args[a]) =>
                /\ InQueryMap(a)
                /\ ~InBody(a)
                /\ input.args[a].type = "array" =>
                       output.params[a].chars = <<"name", ",", "created_at">>

Places(a) ==
    (IF InUrlPath(a) THEN 1 ELSE 0) + (IF InQueryMap(a) THEN 1 ELSE 0)
        + (IF InBody(a) THEN 1 ELSE 0)

-----------------------------------------------------------------------------
(***************************************************************************)
(* NAME ABBREVIATOR                                                        *)
(* abbreviateOperationId(originalName, maxLength).  The operationId is a   *)
(* sequence of pieces (TitleCase words, digits, separators and special     *)
(* characters) whose concatenation is the string; a name is a sequence of  *)
(* chunks [text, len], len being the number of characters of text that the *)
(* chunk holds, so that truncation can cut inside a word.                  *)
(***************************************************************************)

MaxNameWords == 4     \* pieces of one operationId

MAX_TOOL_NAME_LENGTH == 64
MaxLengthForBase     == 59     \* maxLength minus the hyphen and 4 hash characters

NamePieces ==
    {"Get", "User", "Management", "Controller",
     "Supercalifragilisticexpialidocious", "7", "_", "!@#"}

\* The number of characters of a piece or of a token of a name
CharLen(tok) ==
    CASE tok \in {"-", "_", "7"} -> 1
      [] tok \in {"Get", "get", "usr", "!@#"} -> 3
      [] tok \in {"User", "user", "mgmt", "hash4"} -> 4
      [] tok = "tool-" -> 5
      [] tok = "hash8" -> 8
      [] tok \in {"Management", "management", "Controller", "controller"} -> 10
      [] tok = "unnamed-tool" -> 12
      [] tok = "sprclfrglstcxpldcs" -> 18
      [] tok \in {"Supercalifragilisticexpialidocious",
                  "supercalifragilisticexpialidocious"} -> 34
      [] OTHER -> 0

\* The character class of a token: only "lower", "digit", "hyphen" and "hex"
\* tokens consist of characters of [a-z0-9_-]
CharClass(tok) ==
    CASE tok \in {"get", "user", "usr", "management", "mgmt", "controller",
                  "supercalifragilisticexpialidocious", "sprclfrglstcxpldcs",
                  "tool-", "unnamed-tool"} -> "lower"
      [] tok = "7" -> "digit"
      [] tok = "-" -> "hyphen"
      [] tok \in {"hash4", "hash8"} -> "hex"
      [] tok \in {"Get", "User", "Management", "Controller",
                  "Supercalifragilisticexpialidocious"} -> "upper"
      [] tok = "_" -> "underscore"
      [] OTHER -> "special"

OperationIds == SeqsUpTo(NamePieces, MaxNameWords)

RECURSIVE SumLen(_)
SumLen(toks) == IF toks = <<>> THEN 0 ELSE CharLen(Head(toks)) + SumLen(Tail(toks))

\* Step 1: the words between separators and special characters, split on
\* camel-case and digit boundaries, in lower case
SplitWords(pieces) ==
    LowerSeq(SelectSeq(pieces, LAMBDA p : CharClass(p) \in {"upper", "digit"}))

\* Step 2: filler words are dropped
CommonWords == {"controller"}
RemoveCommonWords(words) == SelectSeq(words, LAMBDA w : w \notin CommonWords)

\* Step 3: the dictionary of abbreviations
Abbreviate(w) ==
    CASE w = "user" -> "usr"
      [] w = "management" -> "mgmt"
      [] OTHER -> w

\* Step 4: interior vowels are removed from words longer than 4 characters
RemoveVowels(w) ==
    CASE w = "supercalifragilisticexpialidocious" -> "sprclfrglstcxpldcs"
      [] OTHER -> w

\* words.join("-"), as tokens
RECURSIVE JoinWithHyphens(_)
JoinWithHyphens(words) ==
    IF Len(words) <= 1 THEN words
    ELSE <<Head(words), "-">> \o JoinWithHyphens(Tail(words))

Chunk(tok) == [text |-> tok, len |-> CharLen(tok)]
Chunks(toks) == [i \in 1..Len(toks) |-> Chunk(toks[i])]

RECURSIVE NameLength(_)
NameLength(chunks) ==
    IF chunks = <<>> THEN 0 ELSE Head(chunks).len + NameLength(Tail(chunks))

\* name.substring(0, n)
RECURSIVE Substring(_, _)
Substring(chunks, n) ==
    IF chunks = <<>> \/ n = 0 THEN <<>>
    ELSE IF Head(chunks).len <= n
         THEN <<Head(chunks)>> \o Substring(Tail(chunks), n - Head(chunks).len)
         ELSE <<[text |-> Head(chunks).text, len |-> n]>>

\* Step 7: runs of hyphens collapse to one, leading and trailing hyphens go
RECURSIVE CollapseHyphens(_)
CollapseHyphens(chunks) ==
    IF Len(chunks) <= 1 THEN chunks
    ELSE IF chunks[1].text = "-" /\ chunks[2].text = "-"
         THEN CollapseHyphens(Tail(chunks))
         ELSE <<Head(chunks)>> \o CollapseHyphens(Tail(chunks))

RECURSIVE StripLeading(_)
StripLeading(chunks) ==
    IF chunks # <<>> /\ Head(chunks).text = "-" THEN StripLeading(Tail(chunks))
    ELSE chunks

RECURSIVE StripTrailing(_)
StripTrailing(chunks) ==
    IF chunks # <<>> /\ chunks[Len(chunks)].text = "-"
    THEN StripTrailing(SubSeq(chunks, 1, Len(chunks) - 1))
    ELSE chunks

Normalise(chunks) == StripTrailing(StripLeading(CollapseHyphens(chunks)))

\* Steps 2 to 4: the words of the name before it is measured against the base
ProcessedWords(pieces) ==
    LET abbreviated == [i \in 1..Len(RemoveCommonWords(SplitWords(pieces))) |->
                           Abbreviate(RemoveCommonWords(SplitWords(pieces))[i])]
    IN  IF SumLen(JoinWithHyphens(abbreviated)) > MAX_TOOL_NAME_LENGTH
        THEN [i \in 1..Len(abbreviated) |->
                 IF CharLen(abbreviated[i]) > 4 THEN RemoveVowels(abbreviated[i])
                 ELSE abbreviated[i]]
        ELSE abbreviated

\* Step 5: the base is cut to 59 characters before the hash is appended
HashedBase_NotTruncated(chunks) == chunks
HashedBase(chunks) ==
    IF NameLength(chunks) > MaxLengthForBase
    THEN Substring(chunks, MaxLengthForBase)
    ELSE chunks

AbbreviateOperationId(pieces) ==
    LET current == Chunks(JoinWithHyphens(ProcessedWords(pieces)))
        needsHash == \/ SumLen(pieces) > MAX_TOOL_NAME_LENGTH
                     \/ NameLength(current) > MAX_TOOL_NAME_LENGTH
    IN  IF pieces = <<>> THEN <<Chunk("unnamed-tool")>>
        ELSE IF current = <<>> THEN <<Chunk("tool-"), Chunk("hash8")>>
        ELSE IF needsHash
             THEN Normalise(HashedBase(current) \o <<Chunk("-"), Chunk("hash4")>>)
             ELSE Normalise(current)

\* With abbreviation disabled only step 1 and the final normalisation run
SanitisedOnly(pieces) == Normalise(Chunks(JoinWithHyphens(SplitWords(pieces))))

IsValidName(chunks) ==
    /\ chunks # <<>>
    /\ NameLength(chunks) <= MAX_TOOL_NAME_LENGTH

\* The name of a synthesised tool, or the error of the disabled abbreviator
SynthesiseName(pieces, disableAbbreviation) ==
    IF ~disableAbbreviation
    THEN [kind |-> "name", chunks |-> AbbreviateOperationId(pieces)]
    ELSE IF IsValidName(SanitisedOnly(pieces))
         THEN [kind |-> "name", chunks |-> SanitisedOnly(pieces)]
         ELSE Thrown(TRUE, <<"Invalid tool name">>)

NameInputs ==
    [kind : {"abbreviate"}, operationId : OperationIds, disableAbbreviation : BOOLEAN]

AbbreviateName ==
    /\ UNCHANGED <<execVars, srvVars, httpVars, resources>>
    /\ input.kind = "abbreviate"
    /\ output = NoValue
    /\ output' = SynthesiseName(input.operationId, input.disableAbbreviation)
    /\ UNCHANGED input

InitAbbreviate ==
    /\ ExecParked /\ SrvParked /\ HttpParked
    /\ resources = <<>>
    /\ input \in NameInputs
    /\ output = NoValue

NextAbbreviate == AbbreviateName

SpecAbbreviate == InitAbbreviate /\ [][NextAbbreviate]_vars

NameProduced == input.kind = "abbreviate" /\ output.kind = "name"

TotalChars(chunks) ==
    LET RECURSIVE Total(_)
        Total(i) == IF i = 0 THEN 0 ELSE chunks[i].len + Total(i - 1)
    IN  Total(Len(chunks))

-----------------------------------------------------------------------------
(***************************************************************************)
(* $ref RESOLUTION                                                         *)
(* The loader inlines the schema behind a pointer into #/components and    *)
(* the schemas behind the pointers of its properties.  A component graph   *)
(* gives, for every pointer, the pointers its schema refers to.  A node of *)
(* the produced schema is named by the pointers on the way to it from the  *)
(* root; the visited set of a node is the set of pointers before the last. *)
(* One step inlines one node, depth first.                                 *)
(***************************************************************************)

MaxInlineDepth == 4     \* pointers on the way to a node that a step inlines

Pointers == {"Person", "Address", "Node"}
PointerOrder == <<"Person", "Address", "Node">>

ComponentGraphs == [Pointers -> SUBSET Pointers]

\* visited.has(ref): the pointer of the node is already being inlined
Reentered_OnlyParent(path) ==
    Len(path) >= 2 /\ path[Len(path)] = path[Len(path) - 1]
Reentered(path) ==
    \E i \in 1..(Len(path) - 1) : path[i] = path[Len(path)]

\* The nodes for the $ref properties of the schema behind the last pointer
RefChildren(graph, path) ==
    LET refs == SelectSeq(PointerOrder, LAMBDA p : p \in graph[path[Len(path)]])
    IN  [i \in 1..Len(refs) |-> Append(path, refs[i])]

ResolveInputs == [kind : {"resolve"}, graph : ComponentGraphs, root : Pointers]

\* parseOpenAPISpec meets the $ref of a request body
BeginInline ==
    /\ UNCHANGED <<execVars, srvVars, httpVars, resources>>
    /\ input.kind = "resolve"
    /\ output = NoValue
    /\ output' = [kind |-> "inlining", todo |-> << <<input.root>> >>,
                  objects |-> {}, empties |-> {}]
    /\ UNCHANGED input

\* One node is inlined: an empty object on re-entry, else the schema with
\* its $ref properties still to be inlined
InlineSchema ==
    /\ UNCHANGED <<execVars, srvVars, httpVars, resources>>
    /\ output.kind = "inlining"
    /\ output.todo # <<>>
    /\ Len(Head(output.todo)) <= MaxInlineDepth
    /\ LET path == Head(output.todo)
       IN  IF Reentered(path)
           THEN output' = [output EXCEPT !.todo = Tail(@),
                                         !.empties = @ \cup {path}]
           ELSE output' = [output EXCEPT
                               !.todo = RefChildren(input.graph, path) \o Tail(@),
                               !.objects = @ \cup {path}]
    /\ UNCHANGED input

\* Nothing is left to inline: the input schema is returned
ReturnSchema ==
    /\ UNCHANGED <<execVars, srvVars, httpVars, resources>>
    /\ output.kind = "inlining"
    /\ output.todo = <<>>
    /\ output' = [output EXCEPT !.kind = "schema"]
    /\ UNCHANGED input

InitResolve ==
    /\ ExecParked /\ SrvParked /\ HttpParked
    /\ resources = <<>>
    /\ input \in ResolveInputs
    /\ output = NoValue

NextResolve == BeginInline \/ InlineSchema \/ ReturnSchema

\* The resolution is one synchronous call: it keeps running until it returns
SpecResolve == InitResolve /\ [][NextResolve]_vars /\ WF_vars(NextResolve)

Resolved == input.kind = "resolve" /\ output.kind = "schema"

NoRepeat(path) == \A i, j \in 1..Len(path) : i # j => path[i] # path[j]

\* Every node is at most one pointer deeper than there are pointers, the
\* empty objects are exactly the re-entered pointers, and the returned
\* schema is complete
FiniteTree ==
    output.kind \in {"inlining", "schema"} =>
        /\ \A path \in output.objects : NoRepeat(path)
        /\ \A path \in output.empties :
               /\ Len(path) <= Cardinality(Pointers) + 1
               /\ NoRepeat(SubSeq(path, 1, Len(path) - 1))
               /\ \E i \in 1..(Len(path) - 1) : path[i] = path[Len(path)]
        /\ output.kind = "schema" =>
               /\ <<input.root>> \in output.objects
               /\ \A path \in output.objects :
                      \A p \in input.graph[path[Len(path)]] :
                          Append(path, p) \in output.objects \cup output.empties

\* C27: resolving $ref pointers terminates for every component graph,
\* including self-referential and mutually recursive schemas: a pointer met
\* again while it is already being inlined is replaced by an empty object, so
\* the produced input schema is a finite tree.
C27_RefResolutionTerminates == []FiniteTree /\ <>Resolved

\* Person refers to itself and to Address, Address refers back to Person
C27_Witness ==
    /\ Resolved
    /\ input.root = "Person"
    /\ <<"Person", "Person">> \in output.empties
    /\ <<"Person", "Address", "Person">> \in output.empties
    /\ <<"Person", "Address">> \in output.objects

=============================================================================
